---- MODULE Spec2Model ----
(***************************************************************************)
(* Clause discovery, enrichment batching, risk aggregation and query       *)
(* relevance of the legal-document analysis backend.                       *)
(*                                                                         *)
(* The module holds several specifications over one set of variables:      *)
(*   SpecAnalyze  one run of LegalAnalyzerAgent.analyze_document           *)
(*   SpecClause   the life of one clause: enrichment response, LegalClause *)
(*                construction, validation, risk re-assessment             *)
(*   SpecRisk     RiskAssessorAgent.assess_document_risk on a clause list  *)
(*   SpecQuery    POST /query down to QueryHandlerAgent.handle_query       *)
(*   SpecContext  the context string of a query, from its assembly to the  *)
(*                prompt of the answer call                                *)
(*   SpecRecommend  the recommendations of a DocumentAnalysis, from their  *)
(*                generation to the expert-panel enhancement               *)
(*   SpecRedFlags the red flags of a DocumentAnalysis                      *)
(*   SpecDedup    the removal of near-duplicate clauses                    *)
(*   SpecDeterminism  two runs of analyze_document on one document         *)
(*   SpecTwoDocs  two documents uploaded and processed concurrently;       *)
(*                SpecTwoDocsFair adds that every ready task steps         *)
(*   SpecAdjust   the document-level adjustment of the overall risk        *)
(*   SpecValidate the validation, de-duplication and order of the clauses  *)
(*   SpecIdentify the candidate spans of a document text                   *)
(*   SpecRelevant the clauses selected for a query                         *)
(* Every specification leaves the variables of the others at their idle    *)
(* values.                                                                 *)
(***************************************************************************)
EXTENDS Integers, Sequences, FiniteSets, TLC

VARIABLES
    \* ---- analyze_document run (legal_analyzer.py) ----
    extracted_text,     \* the candidate spans found in the document text, in scan order
    potential_clauses,  \* result of identify_potential_clauses
    an_pc,              \* position of the analyze_document coroutine
    i,                  \* loop variable of the batch loop (offset of the batch)
    status,             \* per candidate (1-based): "idle", "outstanding", "ok", "raised"
    calls,              \* per candidate: number of analyze_legal_text invocations
    legal_clauses,      \* list built by the batch loop (clause_index of each clause)
    slept,              \* offsets of the batches after which asyncio.sleep(1) elapsed
    batches,            \* number of batches issued so far
    \* ---- life of one clause (legal_analyzer.py, risk_assessor.py) ----
    cl_pc,              \* "candidate", "returned", "dropped", "filtered", "valid", "enhanced"
    raw_response,       \* what the enrichment collaborator answers for the candidate
    meaningful,         \* the candidate text has 5 alphabetic words longer than 3 letters
    clause,             \* the LegalClause built from the response, or NoClause
    enhanced_clause,    \* its copy after the re-assessment pass, or NoClause
    \* ---- assess_document_risk run (risk_assessor.py) ----
    ra_pc,              \* "start", "enhance", "done", "raised"
    clauses,            \* the clause list passed in
    enhanced_clauses,   \* the list built by _enhance_clause_risk_assessments
    assess_calls,       \* number of gemini_service.assess_risk calls issued
    result,             \* the RiskAssessmentResult returned, or NoResult
    \* ---- POST /query (main.py, orchestrator.py, query_handler.py) ----
    q_pc,               \* "ready", "answering", "done"
    analysis_results,   \* main.py: ids of the documents with a stored analysis
    analysis_cache,     \* orchestrator: document id -> key_clauses of its analysis
    processed_documents,\* orchestrator: ids of the documents with extracted text
    request,            \* the QueryRequest being served
    relevant_clauses,   \* result of _find_relevant_clauses
    answer_calls,       \* number of gemini_service.answer_query calls issued
    response,           \* the reply to the request: a QueryResult or an error
    \* ---- context assembly (query_handler.py, gemini_service.py) ----
    cx_pc,              \* "start", "assembled", "passed"
    cx_clauses,         \* the selected clauses: type and length of original_text
    cx_sentences,       \* the sentences of the document text, in order
    full_context,       \* length of the string _extract_relevant_context returns
    prompt_context,     \* length of the context answer_query puts in its prompt
    \* ---- recommendations of a DocumentAnalysis (orchestrator.py, crew/) ----
    rc_pc,              \* "start", "generated", "returned"
    rc_clauses,         \* legal_clauses: type, score and recommendations of each
    rc_overall_risk,    \* risk_assessment.overall_risk
    recommendations,    \* DocumentAnalysis.recommendations
    \* ---- red flags of a DocumentAnalysis (orchestrator.py) ----
    rf_pc,              \* "start", "done"
    rf_clauses,         \* legal_clauses: type, score, explanation, phrases of the text
    rf_source,          \* "none", "ai" or "template": where red_flags came from
    red_flags,          \* DocumentAnalysis.red_flags
    \* ---- the clause deduplicator applied twice (legal_analyzer.py) ----
    dd_pc,              \* "start", "once", "twice"
    dd_clauses,         \* the clause list L: id and normalized text of each clause
    dd_once,            \* _remove_duplicate_clauses(L)
    dd_twice,           \* _remove_duplicate_clauses(_remove_duplicate_clauses(L))
    \* ---- two runs on one document (legal_analyzer.py, risk_assessor.py) ----
    dt_pc,              \* "first", "second", "done": the run under way
    dt_spans,           \* the spans of the document text, each with the answer
                        \* the fixed enrichment function gives for it
    dt_offset,          \* i, the offset of the batch in flight
    dt_completed,       \* the tasks of the batch that completed, in completion order
    dt_legal_clauses,   \* legal_clauses of the run under way
    dt_first,           \* what the first run produced
    dt_second,          \* what the second run produced
    \* ---- two documents in interleaved background tasks (main.py, orchestrator.py) ----
    td_pc,              \* per document: the await its task is suspended at
    td_input,           \* per document: what its collaborators do for it
    td_enable_crewai,   \* the expert-panel enhancement is switched on
    td_processing_status,   \* main.py: processing_status
    td_analysis_results,    \* main.py: analysis_results
    td_processed_documents, \* orchestrator: processed_documents
    td_analysis_cache,      \* orchestrator: analysis_cache
    td_runs,                \* per document: the background tasks that began to run for it
    \* ---- the document-level adjustment of a clause list (risk_assessor.py) ----
    aj_pc,              \* "start", "done"
    aj_clauses,         \* the clause list given to _calculate_document_risk_adjustments
    aj_adjustment,      \* the adjustment returned, in tenths
    \* ---- validation of a clause list (legal_analyzer.py) ----
    vf_pc,              \* "start", "done"
    vf_clauses,         \* the clause list given to _validate_and_filter_clauses
    vf_validated,       \* the list it returns
    \* ---- candidate discovery on the spans of a text (text_processor.py) ----
    ip_pc,              \* "start", "done"
    ip_clauses,         \* clauses: the spans of the paragraph scan, then of the sentence scan
    ip_candidates,      \* what identify_potential_clauses returns
    \* ---- relevance of the clauses to a query (query_handler.py) ----
    rl_pc,              \* "start", "done"
    rl_query,           \* the words of the query
    rl_clauses,         \* legal_clauses
    rl_relevant         \* what _find_relevant_clauses returns

anVars == <<extracted_text, potential_clauses, an_pc, i, status, calls,
            legal_clauses, slept, batches>>

clVars == <<cl_pc, raw_response, meaningful, clause, enhanced_clause>>

raVars == <<ra_pc, clauses, enhanced_clauses, assess_calls, result>>

qVars == <<q_pc, analysis_results, analysis_cache, processed_documents, request,
           relevant_clauses, answer_calls, response>>

cxVars == <<cx_pc, cx_clauses, cx_sentences, full_context, prompt_context>>

rcVars == <<rc_pc, rc_clauses, rc_overall_risk, recommendations>>

rfVars == <<rf_pc, rf_clauses, rf_source, red_flags>>

ddVars == <<dd_pc, dd_clauses, dd_once, dd_twice>>

\* the variables of the specifications of single functions and of whole runs
dtVars == <<dt_pc, dt_spans, dt_offset, dt_completed, dt_legal_clauses,
            dt_first, dt_second>>

tdVars == <<td_pc, td_input, td_enable_crewai, td_processing_status,
            td_analysis_results, td_processed_documents, td_analysis_cache, td_runs>>

laterVars == <<ddVars, dtVars, tdVars>>

ajVars == <<aj_pc, aj_clauses, aj_adjustment>>

\* the variables of the specifications of the aggregation and validation steps
vfVars == <<vf_pc, vf_clauses, vf_validated>>

ipVars == <<ip_pc, ip_clauses, ip_candidates>>

rlVars == <<rl_pc, rl_query, rl_clauses, rl_relevant>>

finalVars == <<ajVars, vfVars, ipVars, rlVars>>

\* the variables of the later specifications
extVars == <<cxVars, rcVars, rfVars, laterVars, finalVars>>

vars == <<anVars, clVars, raVars, qVars, extVars>>

notAnalyze == <<clVars, raVars, qVars, extVars>>
notClause == <<anVars, raVars, qVars, extVars>>
notRisk == <<anVars, clVars, qVars, extVars>>
notQuery == <<anVars, clVars, raVars, extVars>>
coreVars == <<anVars, clVars, raVars, qVars>>
notContext == <<coreVars, rcVars, rfVars, laterVars, finalVars>>
notRecommend == <<coreVars, cxVars, rfVars, laterVars, finalVars>>
notRedFlags == <<coreVars, cxVars, rcVars, laterVars, finalVars>>
earlierVars == <<coreVars, cxVars, rcVars, rfVars>>
notDedup == <<earlierVars, dtVars, tdVars, finalVars>>
notDeterminism == <<earlierVars, ddVars, tdVars, finalVars>>
notTwoDocs == <<earlierVars, ddVars, dtVars, finalVars>>
notAdjust == <<earlierVars, laterVars, vfVars, ipVars, rlVars>>
notValidate == <<earlierVars, laterVars, ajVars, ipVars, rlVars>>
notIdentify == <<earlierVars, laterVars, ajVars, vfVars, rlVars>>
notRelevant == <<earlierVars, laterVars, ajVars, vfVars, ipVars>>

-----------------------------------------------------------------------------
(* Bounds of the model *)

\* largest number of candidate spans the scan of a document yields
MaxSpans == 21
\* largest number of enrichment calls that raise in one run
MaxFail == 2
\* longest clause list of mixed types and scores given to assess_document_risk
MaxClauses == 3
\* longest clause list of one type and score given to assess_document_risk
MaxRepeat == 6
\* longest key_clauses list of mixed clauses of a stored analysis
MaxKeyClauses == 2
\* longest key_clauses list of like clauses of a stored analysis
MaxKeyRepeat == 6
\* most clauses selected for the context of a query
MaxContextClauses == 2
\* most sentences of the document text of a query
MaxSentences == 4
\* most clauses of a document whose recommendations are generated
MaxRecClauses == 3
\* most clauses of a document whose red flags are identified
MaxFlagClauses == 3
\* longest clause list given to the deduplicator
MaxDedupClauses == 4
\* most spans of a document of mixed spans that is analysed twice
MaxRunSpans == 3
\* most spans of a document of like spans that is analysed twice
MaxRunRepeat == 6
\* longest clause list whose document-level adjustment is calculated
MaxAdjustClauses == 10
\* longest clause list given to _validate_and_filter_clauses
MaxValidateClauses == 3
\* most spans the two scans of a text yield together
MaxIdentifySpans == 4
\* most clauses of mixed kinds of a list searched for a query
MaxRelevantClauses == 3
\* most like clauses that follow or precede them in the list
MaxRelevantRepeat == 3

(* Program constants *)

\* legal_analyzer.py:33
batch_size == 5
\* text_processor.py:315
MaxCandidates == 20
\* number of importance levels a span can take in the inputs
ImpLevels == 3

-----------------------------------------------------------------------------
(* Generic helpers *)

Min(a, b) == IF a < b THEN a ELSE b
Max(a, b) == IF a > b THEN a ELSE b

\* s[:n]
Take(s, n) == SubSeq(s, 1, Min(n, Len(s)))

\* the subsequence of s of the elements satisfying Test, in order
RECURSIVE SelectIdx(_, _, _)
SelectIdx(lo, hi, S) ==
    IF lo > hi THEN <<>>
    ELSE (IF lo \in S THEN <<lo>> ELSE <<>>) \o SelectIdx(lo + 1, hi, S)

-----------------------------------------------------------------------------
(* text_processor.identify_potential_clauses, lines 300-315                *)
(* A span is [text, sig, imp]: its text (an identifier), the signature of  *)
(* its first ten words, and its importance score (a level 0..ImpLevels-1). *)

\* lines 301-311 keeping the last span of every signature
RECURSIVE UniqueClausesLastWins(_, _)
UniqueClausesLastWins(spans, seen_texts) ==
    IF spans = <<>> THEN <<>>
    ELSE LET span == Head(spans) IN
         IF \E k \in 2..Len(spans) : spans[k].sig = span.sig
         THEN UniqueClausesLastWins(Tail(spans), seen_texts)
         ELSE <<span>> \o UniqueClausesLastWins(Tail(spans), seen_texts)

\* lines 301-311: keep the first span of every signature
RECURSIVE UniqueClauses(_, _)
UniqueClauses(spans, seen_texts) ==
    IF spans = <<>> THEN <<>>
    ELSE LET span == Head(spans) IN
         IF span.sig \in seen_texts
         THEN UniqueClauses(Tail(spans), seen_texts)
         ELSE <<span>> \o UniqueClauses(Tail(spans), seen_texts \cup {span.sig})

\* list.sort(key = importance_score, reverse = True): stable, descending
RECURSIVE InsertByImportance(_, _)
InsertByImportance(x, sorted) ==
    IF sorted = <<>> THEN <<x>>
    ELSE IF Head(sorted).imp >= x.imp
         THEN <<Head(sorted)>> \o InsertByImportance(x, Tail(sorted))
         ELSE <<x>> \o sorted

RECURSIVE SortByImportance(_)
SortByImportance(s) ==
    IF s = <<>> THEN <<>>
    ELSE InsertByImportance(s[Len(s)], SortByImportance(SubSeq(s, 1, Len(s) - 1)))

\* line 315 dropped: every unique span is returned
TopUncapped(unique_clauses) == unique_clauses

\* line 315: unique_clauses[:20]
Top(unique_clauses) == Take(unique_clauses, MaxCandidates)

identify_potential_clauses(spans) ==
    Top(SortByImportance(UniqueClauses(spans, {})))

\* The input documents: n spans; with dup, consecutive spans share a signature
DocSpans(n, dup) ==
    [k \in 1..n |-> [text |-> k,
                     sig  |-> IF dup THEN (k + 1) \div 2 ELSE k,
                     imp  |-> k % ImpLevels]]

InputDocs == { DocSpans(n, dup) : n \in 0..MaxSpans, dup \in BOOLEAN }

-----------------------------------------------------------------------------
(* LegalAnalyzerAgent.analyze_document, lines 17-72 *)

N == Len(potential_clauses)

\* a batch one item too long
BatchWide(off) == (off + 1)..Min(off + batch_size + 1, N)

\* line 35: the indices (1-based) of potential_clauses[i:i + batch_size]
Batch(off) == (off + 1)..Min(off + batch_size, N)

Outstanding == { k \in 1..N : status[k] = "outstanding" }
Raised == { k \in 1..N : status[k] = "raised" }
Resolved(k) == status[k] \in {"ok", "raised"}

\* gather without return_exceptions: the first exception is propagated
return_exceptions_off == FALSE

\* line 43: asyncio.gather(*tasks, return_exceptions=True)
return_exceptions == TRUE

\* the pause of line 54 left out
NoPause(off) == FALSE

\* line 53
NeedsPause(off) == off + batch_size < N

\* the for statement of line 34 moving on
LoopNext(off) == IF off + batch_size < N THEN "gather" ELSE "validate"

NoClause == [clause_id |-> 0]

AnalyzeIdle ==
    /\ extracted_text = <<>>
    /\ potential_clauses = <<>>
    /\ an_pc = "idle"
    /\ i = 0
    /\ status = <<>>
    /\ calls = <<>>
    /\ legal_clauses = <<>>
    /\ slept = {}
    /\ batches = 0

ClauseIdle ==
    /\ cl_pc = "idle"
    /\ raw_response = [api_error |-> TRUE]
    /\ meaningful = FALSE
    /\ clause = NoClause
    /\ enhanced_clause = NoClause

NoResult == [document_id |-> "none"]

RiskIdle ==
    /\ ra_pc = "idle"
    /\ clauses = <<>>
    /\ enhanced_clauses = <<>>
    /\ assess_calls = 0
    /\ result = NoResult

NoRequest == [document_id |-> "none", query |-> {}]
NoResponse == [kind |-> "none"]

QueryIdle ==
    /\ q_pc = "idle"
    /\ analysis_results = {}
    /\ analysis_cache = <<>>
    /\ processed_documents = {}
    /\ request = NoRequest
    /\ relevant_clauses = <<>>
    /\ answer_calls = 0
    /\ response = NoResponse

ContextIdle ==
    /\ cx_pc = "idle"
    /\ cx_clauses = <<>>
    /\ cx_sentences = <<>>
    /\ full_context = 0
    /\ prompt_context = 0

RecommendIdle ==
    /\ rc_pc = "idle"
    /\ rc_clauses = <<>>
    /\ rc_overall_risk = 0
    /\ recommendations = <<>>

RedFlagsIdle ==
    /\ rf_pc = "idle"
    /\ rf_clauses = <<>>
    /\ rf_source = "none"
    /\ red_flags = <<>>

DedupIdle ==
    /\ dd_pc = "idle"
    /\ dd_clauses = <<>>
    /\ dd_once = <<>>
    /\ dd_twice = <<>>

NoOutput == [kind |-> "none"]

DeterminismIdle ==
    /\ dt_pc = "idle"
    /\ dt_spans = <<>>
    /\ dt_offset = 0
    /\ dt_completed = <<>>
    /\ dt_legal_clauses = <<>>
    /\ dt_first = NoOutput
    /\ dt_second = NoOutput

TwoDocsIdle ==
    /\ td_pc = <<>>
    /\ td_input = <<>>
    /\ td_enable_crewai = FALSE
    /\ td_processing_status = <<>>
    /\ td_analysis_results = <<>>
    /\ td_processed_documents = <<>>
    /\ td_analysis_cache = <<>>
    /\ td_runs = <<>>

AdjustIdle ==
    /\ aj_pc = "idle"
    /\ aj_clauses = <<>>
    /\ aj_adjustment = 0

ValidateIdle ==
    /\ vf_pc = "idle"
    /\ vf_clauses = <<>>
    /\ vf_validated = <<>>

IdentifyIdle ==
    /\ ip_pc = "idle"
    /\ ip_clauses = <<>>
    /\ ip_candidates = <<>>

RelevantIdle ==
    /\ rl_pc = "idle"
    /\ rl_query = {}
    /\ rl_clauses = <<>>
    /\ rl_relevant = <<>>

FinalIdle == AdjustIdle /\ ValidateIdle /\ IdentifyIdle /\ RelevantIdle

LaterIdle == DedupIdle /\ DeterminismIdle /\ TwoDocsIdle

\* the later specifications are idle
ExtIdle == ContextIdle /\ RecommendIdle /\ RedFlagsIdle /\ LaterIdle /\ FinalIdle

CoreIdle == AnalyzeIdle /\ ClauseIdle /\ RiskIdle /\ QueryIdle

InitAnalyze ==
    /\ ClauseIdle /\ RiskIdle /\ QueryIdle /\ ExtIdle
    /\ extracted_text \in InputDocs
    /\ potential_clauses = <<>>
    /\ an_pc = "start"
    /\ i = 0
    /\ status = <<>>
    /\ calls = <<>>
    /\ legal_clauses = <<>>
    /\ slept = {}
    /\ batches = 0

\* lines 25-34: segmentation, then the loop is entered (or skipped)
IdentifyClauses ==
    /\ an_pc = "start"
    /\ LET pcs == identify_potential_clauses(extracted_text) IN
         /\ potential_clauses' = pcs
         /\ status' = [k \in 1..Len(pcs) |-> "idle"]
         /\ calls' = [k \in 1..Len(pcs) |-> 0]
         /\ an_pc' = IF 0 < Len(pcs) THEN "gather" ELSE "validate"
         /\ batches' = IF 0 < Len(pcs) THEN 1 ELSE 0
    /\ i' = 0
    /\ UNCHANGED <<extracted_text, legal_clauses, slept, notAnalyze>>

\* lines 38-43, 80: the next task of the batch runs up to its call of
\* analyze_legal_text
StartCall(k) ==
    /\ an_pc = "gather"
    /\ k \in Batch(i)
    /\ status[k] = "idle"
    /\ \A j \in Batch(i) : j < k => status[j] # "idle"
    /\ status' = [status EXCEPT ![k] = "outstanding"]
    /\ calls' = [calls EXCEPT ![k] = @ + 1]
    /\ UNCHANGED <<extracted_text, potential_clauses, an_pc, i, legal_clauses,
                   slept, batches, notAnalyze>>

\* lines 80-104: the call returns and the LegalClause is built
CallReturns(k) ==
    /\ an_pc = "gather"
    /\ k \in 1..N
    /\ status[k] = "outstanding"
    /\ status' = [status EXCEPT ![k] = "ok"]
    /\ UNCHANGED <<extracted_text, potential_clauses, an_pc, i, calls,
                   legal_clauses, slept, batches, notAnalyze>>

\* lines 106-108: the call raises, or its response cannot be built into a
\* LegalClause; the task ends with the exception
CallRaises(k) ==
    /\ an_pc = "gather"
    /\ k \in 1..N
    /\ status[k] = "outstanding"
    /\ Cardinality(Raised) < MaxFail
    /\ status' = [status EXCEPT ![k] = "raised"]
    /\ an_pc' = IF return_exceptions THEN an_pc ELSE "raised"
    /\ UNCHANGED <<extracted_text, potential_clauses, i, calls,
                   legal_clauses, slept, batches, notAnalyze>>

\* lines 43-54: gather returns; the LegalClause results are appended in task order
GatherDone ==
    /\ an_pc = "gather"
    /\ \A k \in Batch(i) : Resolved(k)
    /\ legal_clauses' = legal_clauses \o
           SelectIdx(i + 1, Min(i + batch_size, N),
                     { k \in Batch(i) : status[k] = "ok" })
    /\ IF NeedsPause(i)
       THEN /\ an_pc' = "sleep"
            /\ UNCHANGED <<i, batches>>
       ELSE /\ an_pc' = LoopNext(i)
            /\ i' = i + batch_size
            /\ batches' = IF LoopNext(i) = "gather" THEN batches + 1 ELSE batches
    /\ UNCHANGED <<extracted_text, potential_clauses, status, calls, slept, notAnalyze>>

\* line 54: the pause elapses and the loop moves to the next batch
Sleep ==
    /\ an_pc = "sleep"
    /\ slept' = slept \cup {i}
    /\ an_pc' = LoopNext(i)
    /\ i' = i + batch_size
    /\ batches' = IF LoopNext(i) = "gather" THEN batches + 1 ELSE batches
    /\ UNCHANGED <<extracted_text, potential_clauses, status, calls, legal_clauses,
                   notAnalyze>>

\* lines 57-68: the list is handed to _validate_and_filter_clauses and the
\* run returns
ValidateAndReturn ==
    /\ an_pc = "validate"
    /\ an_pc' = "done"
    /\ UNCHANGED <<extracted_text, potential_clauses, i, status, calls,
                   legal_clauses, slept, batches, notAnalyze>>

NextAnalyze ==
    \/ IdentifyClauses
    \/ \E k \in 1..N : StartCall(k)
    \/ \E k \in 1..N : CallReturns(k)
    \/ \E k \in 1..N : CallRaises(k)
    \/ GatherDone
    \/ Sleep
    \/ ValidateAndReturn

SpecAnalyze == InitAnalyze /\ [][NextAnalyze]_vars

-----------------------------------------------------------------------------
(* The clause record and the collaborators' responses                      *)

\* models/document.py, lines 41-54
ClauseTypes ==
    {"payment_terms", "termination", "liability", "privacy", "indemnification",
     "dispute_resolution", "intellectual_property", "confidentiality",
     "force_majeure", "governing_law", "amendment", "severability", "other"}

\* A risk_score as a collaborator's JSON gives it: a number, written in
\* tenths (79 is 7.9), or "missing" (no such key), or "text" (not a number).
RawNumbers == {-15, -5, 0, 9, 10, 45, 59, 80, 99, 100, 109, 110, 125}
Missing == [kind |-> "missing", tenths |-> 0]
NotANumber == [kind |-> "text", tenths |-> 0]
RawRisks == [kind : {"number"}, tenths : RawNumbers] \cup {Missing, NotANumber}

\* Python int(x) of a number: truncation toward zero
IntOf(tenths) == IF tenths >= 0 THEN tenths \div 10 ELSE -((-tenths) \div 10)

\* max(1, min(10, v))
ClampScore(v) == Max(1, Min(10, v))

\* The outcome of a sanitizing step: a value, or an exception
Ok(v) == [ok |-> TRUE, value |-> v]
Exc == [ok |-> FALSE, value |-> "exception"]

\* int(result.get("risk_score", 5)) without the clamp
RawScore(raw) ==
    IF raw.kind = "missing" THEN Ok(5)
    ELSE IF raw.kind = "text" THEN Exc
    ELSE Ok(IntOf(raw.tenths))

\* max(1, min(10, int(result.get("risk_score", 5)))): ValueError/TypeError
\* when the value is not a number
SanitizedScore(raw) ==
    IF raw.kind = "missing" THEN Ok(5)
    ELSE IF raw.kind = "text" THEN Exc
    ELSE Ok(ClampScore(IntOf(raw.tenths)))

\* The enrichment responses: the API call fails, or JSON with a clause type
\* (one of the enumeration or another string), a risk score, a simplified
\* text (blank or not) and lists that are lists of strings or not.
EnrichApiError ==
    [api_error |-> TRUE, clause_type |-> "other", risk_score |-> Missing,
     simplified_text |-> "", lists_ok |-> TRUE]
RawEnrichResponses ==
    {EnrichApiError} \cup
    [api_error : {FALSE},
     clause_type : ClauseTypes \cup {"warranty"},
     risk_score : RawRisks,
     simplified_text : {"", "plain words"},
     lists_ok : BOOLEAN]

\* modern_gemini_service._validate_legal_analysis, lines 393-404
validate_legal_analysis(r) ==
    LET sc == SanitizedScore(r.risk_score) IN
    IF ~sc.ok THEN Exc
    ELSE Ok([clause_type |-> r.clause_type,
             risk_score |-> sc.value,
             simplified_text |-> r.simplified_text,
             lists_ok |-> r.lists_ok])

\* modern_gemini_service.analyze_legal_text, lines 217-256: the sanitized
\* response, or the exception of the failed call or of the sanitizer
analyze_legal_text(raw) ==
    IF raw.api_error THEN Exc ELSE validate_legal_analysis(raw)

\* models/document.py, lines 56-68: what the LegalClause constructor accepts
LegalClauseAccepts(risk_score, lists_ok) ==
    /\ risk_score \in 1..10
    /\ lists_ok

\* The explanation and the recommendations the enrichment call gave
OriginalExplanation == "original explanation"
OriginalRecommendations == <<"original advice">>

\* legal_analyzer._analyze_single_clause, lines 74-108
analyze_single_clause(raw, clause_index) ==
    LET res == analyze_legal_text(raw) IN
    IF ~res.ok THEN Exc
    ELSE LET a == res.value
             clause_type == IF a.clause_type \in ClauseTypes
                            THEN a.clause_type ELSE "other"
         IN IF ~LegalClauseAccepts(a.risk_score, a.lists_ok) THEN Exc
            ELSE Ok([clause_id |-> clause_index,
                     clause_type |-> clause_type,
                     risk_score |-> a.risk_score,
                     simplified_text |-> a.simplified_text,
                     risk_explanation |-> OriginalExplanation,
                     recommendations |-> OriginalRecommendations])

\* legal_analyzer._is_valid_clause, lines 153-173; a candidate span is longer
\* than 100 characters, so the length test of line 156 passes
is_valid_clause(c, has_meaningful_words) ==
    /\ c.simplified_text # ""
    /\ 1 <= c.risk_score /\ c.risk_score <= 10
    /\ has_meaningful_words

\* legal_analyzer._get_clause_importance, lines 215-231
get_clause_importance(clause_type) ==
    CASE clause_type = "liability" -> 10
      [] clause_type = "payment_terms" -> 9
      [] clause_type = "termination" -> 8
      [] clause_type = "indemnification" -> 7
      [] clause_type = "intellectual_property" -> 6
      [] clause_type = "confidentiality" -> 5
      [] clause_type = "dispute_resolution" -> 4
      [] clause_type = "governing_law" -> 3
      [] clause_type = "amendment" -> 2
      [] clause_type = "severability" -> 1
      [] OTHER -> 0

-----------------------------------------------------------------------------
(* The re-assessment of one clause, risk_assessor.py lines 94-134 *)

\* The responses of the supplementary risk call: the score, the
\* explanation (str() of it, possibly empty) and the list of
\* recommendations (a non-list counts as the empty list, line 210)
RevisedRecommendations == <<"revised advice 1", "revised advice 2", "revised advice 3">>
AssessApiError ==
    [api_error |-> TRUE, risk_score |-> Missing,
     risk_explanation |-> "", recommendations |-> <<>>]
RawAssessResponses ==
    {AssessApiError} \cup
    [api_error : {FALSE}, risk_score : RawRisks,
     risk_explanation : {"", "revised explanation"},
     recommendations : {<<>>, RevisedRecommendations}]

\* _validate_risk_assessment with the clamp left out
validate_risk_assessment_noclamp(r) ==
    LET sc == RawScore(r.risk_score) IN
    IF ~sc.ok THEN Exc
    ELSE Ok([risk_score |-> sc.value,
             risk_explanation |-> r.risk_explanation,
             recommendations |-> r.recommendations])

\* gemini_service._validate_risk_assessment, lines 204-211
validate_risk_assessment(r) ==
    LET sc == SanitizedScore(r.risk_score) IN
    IF ~sc.ok THEN Exc
    ELSE Ok([risk_score |-> sc.value,
             risk_explanation |-> r.risk_explanation,
             recommendations |-> r.recommendations])

\* gemini_service.assess_risk, lines 131-146: every failure gives the
\* fallback assessment with risk_score 5
FallbackAssessment ==
    [risk_score |-> 5,
     risk_explanation |-> "Risk assessment failed",
     recommendations |-> <<"Review with legal professional">>]
assess_risk(raw) ==
    LET res == IF raw.api_error THEN Exc ELSE validate_risk_assessment(raw) IN
    IF res.ok THEN res.value ELSE FallbackAssessment

\* lines 99-104, 110
high_priority_types == {"liability", "indemnification", "payment_terms", "termination"}
NeedsReassessment(c) ==
    c.clause_type \in high_priority_types /\ c.risk_score >= 6

Abs(x) == IF x < 0 THEN -x ELSE x

\* lines 107, 115-127 with the range test of line 116 left out
enhance_clause_any_revision(c, enhanced_assessment) ==
    [c EXCEPT !.risk_score = enhanced_assessment.risk_score,
              !.risk_explanation =
                  IF enhanced_assessment.risk_explanation # ""
                  THEN enhanced_assessment.risk_explanation ELSE @,
              !.recommendations = @ \o Take(enhanced_assessment.recommendations, 2)]

\* lines 107, 115-127: the copy of the clause; a revised score within 2 of
\* the original is taken over, with the revised explanation when it is not
\* empty and the first two revised recommendations
enhance_clause(c, enhanced_assessment) ==
    LET enhanced_risk == enhanced_assessment.risk_score IN
    IF Abs(enhanced_risk - c.risk_score) <= 2
    THEN [c EXCEPT !.risk_score = enhanced_risk,
                   !.risk_explanation =
                       IF enhanced_assessment.risk_explanation # ""
                       THEN enhanced_assessment.risk_explanation ELSE @,
                   !.recommendations = @ \o Take(enhanced_assessment.recommendations, 2)]
    ELSE c

\* lines 107, 127: clause.copy() is a shallow copy, so the copy and the
\* clause passed in hold the same list object in "recommendations", and the
\* extend of line 127 lengthens the list of the clause passed in as well
clause_after_enhancement(c, enhanced_assessment) ==
    [c EXCEPT !.recommendations =
                  enhance_clause(c, enhanced_assessment).recommendations]

-----------------------------------------------------------------------------
(* SpecClause: one candidate from its enrichment to its re-assessment *)

InitClause ==
    /\ AnalyzeIdle /\ RiskIdle /\ QueryIdle /\ ExtIdle
    /\ cl_pc = "candidate"
    /\ raw_response \in RawEnrichResponses
    /\ meaningful \in BOOLEAN
    /\ clause = NoClause
    /\ enhanced_clause = NoClause

\* _analyze_single_clause: the clause is built, or the task raises and the
\* batch loop drops the candidate
AnalyzeSingleClause ==
    /\ cl_pc = "candidate"
    /\ LET res == analyze_single_clause(raw_response, 1) IN
         IF res.ok
         THEN cl_pc' = "built" /\ clause' = res.value
         ELSE cl_pc' = "dropped" /\ clause' = NoClause
    /\ UNCHANGED <<raw_response, meaningful, enhanced_clause, notClause>>

\* _validate_and_filter_clauses on the built clause; a valid clause is
\* returned by analyze_document
ValidateClause ==
    /\ cl_pc = "built"
    /\ cl_pc' = IF is_valid_clause(clause, meaningful) THEN "returned" ELSE "filtered"
    /\ UNCHANGED <<raw_response, meaningful, clause, enhanced_clause, notClause>>

\* _enhance_clause_risk_assessments, a clause that is not re-assessed
KeepClause ==
    /\ cl_pc = "returned"
    /\ ~NeedsReassessment(clause)
    /\ enhanced_clause' = clause
    /\ cl_pc' = "enhanced"
    /\ UNCHANGED <<raw_response, meaningful, clause, notClause>>

\* _enhance_clause_risk_assessments, a clause that is re-assessed
ReassessClause(raw) ==
    /\ cl_pc = "returned"
    /\ NeedsReassessment(clause)
    /\ enhanced_clause' = enhance_clause(clause, assess_risk(raw))
    /\ clause' = clause_after_enhancement(clause, assess_risk(raw))
    /\ cl_pc' = "enhanced"
    /\ UNCHANGED <<raw_response, meaningful, notClause>>

NextClause ==
    \/ AnalyzeSingleClause
    \/ ValidateClause
    \/ KeepClause
    \/ \E raw \in RawAssessResponses : ReassessClause(raw)

SpecClause == InitClause /\ [][NextClause]_vars

\* C6: a clause returned by analyze_document, and its copy that the risk
\* aggregator scores after the re-assessment pass, has an integer riskScore
\* between 1 and 10, whatever the collaborators answer.
C6_RiskScoreInRange ==
    /\ cl_pc \in {"returned", "enhanced"} => clause.risk_score \in 1..10
    /\ cl_pc = "enhanced" => enhanced_clause.risk_score \in 1..10

\* a clause scored 10 whose re-assessment answered 12.5 and was taken as 10,
\* built from an enrichment response that answered 11
C6_Witness ==
    /\ cl_pc = "enhanced"
    /\ raw_response.risk_score.tenths = 110
    /\ NeedsReassessment(clause)
    /\ enhanced_clause.risk_score = 10

-----------------------------------------------------------------------------
(* RiskAssessorAgent: aggregation, risk_assessor.py lines 136-280          *)
(* Weights and adjustments are kept exact: a type weight in tenths, a      *)
(* boosted weight in hundredths, an adjustment in tenths, and the overall  *)
(* risk as a reduced fraction [num, den].                                  *)

RECURSIVE GCD(_, _)
GCD(a, b) == IF b = 0 THEN a ELSE GCD(b, a % b)

Rat(n, d) == LET g == GCD(n, d) IN [num |-> n \div g, den |-> d \div g]
RatLeq(x, y) == x.num * y.den <= y.num * x.den
RatOfInt(n) == [num |-> n, den |-> 1]

\* lines 17-31, in tenths; a type off the table weighs 1.0
clause_weights(clause_type) ==
    CASE clause_type = "liability" -> 15
      [] clause_type = "indemnification" -> 14
      [] clause_type = "payment_terms" -> 13
      [] clause_type = "termination" -> 12
      [] clause_type = "intellectual_property" -> 11
      [] clause_type = "confidentiality" -> 10
      [] clause_type = "dispute_resolution" -> 9
      [] clause_type = "governing_law" -> 8
      [] clause_type = "amendment" -> 7
      [] clause_type = "severability" -> 6
      [] clause_type = "privacy" -> 10
      [] clause_type = "force_majeure" -> 8
      [] clause_type = "other" -> 5
      [] OTHER -> 10

\* lines 145-151 with the two tests in the other order, so that the first
\* match is the test for 6
BoostedWeightSixFirst(c) ==
    clause_weights(c.clause_type) *
        (IF c.risk_score >= 6 THEN 11 ELSE IF c.risk_score >= 8 THEN 13 ELSE 10)

\* lines 145-151, in hundredths
BoostedWeight(c) ==
    clause_weights(c.clause_type) *
        (IF c.risk_score >= 8 THEN 13 ELSE IF c.risk_score >= 6 THEN 11 ELSE 10)

RECURSIVE TotalWeightedScore(_)
TotalWeightedScore(cs) ==
    IF cs = <<>> THEN 0
    ELSE Head(cs).risk_score * BoostedWeight(Head(cs)) + TotalWeightedScore(Tail(cs))

RECURSIVE TotalWeight(_)
TotalWeight(cs) ==
    IF cs = <<>> THEN 0 ELSE BoostedWeight(Head(cs)) + TotalWeight(Tail(cs))

Count(cs, Test(_)) == Cardinality({ k \in 1..Len(cs) : Test(cs[k]) })

IsHighRisk(c) == c.risk_score >= 7

\* lines 183-187, in tenths
RECURSIVE CriticalAdjustment(_)
CriticalAdjustment(cs) ==
    IF cs = <<>> THEN 0
    ELSE (IF Head(cs).clause_type \in {"liability", "indemnification"}
          THEN (IF Head(cs).risk_score >= 8 THEN 3
                ELSE IF Head(cs).risk_score >= 6 THEN 1 ELSE 0)
          ELSE 0) + CriticalAdjustment(Tail(cs))

\* lines 173-176 with the second test an if of its own: both tiers are
\* added when the ratio exceeds 0.3
calculate_document_risk_adjustments_additive(cs) ==
    LET high_risk_count == Count(cs, IsHighRisk)
        has_protective ==
            \E k \in 1..Len(cs) : cs[k].clause_type \in {"severability", "force_majeure"}
    IN (IF 10 * high_risk_count > 3 * Len(cs) THEN 5 ELSE 0)
         + (IF 100 * high_risk_count > 15 * Len(cs) THEN 2 ELSE 0)
         + CriticalAdjustment(cs)
         + (IF ~has_protective /\ Len(cs) > 5 THEN 2 ELSE 0)

\* _calculate_document_risk_adjustments, lines 166-196, in tenths
calculate_document_risk_adjustments(cs) ==
    LET high_risk_count == Count(cs, IsHighRisk)
        ratio_adjustment ==
            IF 10 * high_risk_count > 3 * Len(cs) THEN 5
            ELSE IF 100 * high_risk_count > 15 * Len(cs) THEN 2
            ELSE 0
        has_protective ==
            \E k \in 1..Len(cs) : cs[k].clause_type \in {"severability", "force_majeure"}
    IN ratio_adjustment + CriticalAdjustment(cs)
         + (IF ~has_protective /\ Len(cs) > 5 THEN 2 ELSE 0)

\* lines 156-161: weighted_average + risk_adjustments
FinalRisk(cs) ==
    Rat(10 * TotalWeightedScore(cs) + calculate_document_risk_adjustments(cs) * TotalWeight(cs),
        10 * TotalWeight(cs))

\* _calculate_overall_risk returning final_risk as it is
calculate_overall_risk_unclamped(cs) ==
    IF cs = <<>> THEN RatOfInt(5) ELSE FinalRisk(cs)

\* _calculate_overall_risk, lines 136-164
calculate_overall_risk(cs) ==
    IF cs = <<>> THEN RatOfInt(5)
    ELSE LET final_risk == FinalRisk(cs) IN
         IF RatLeq(final_risk, RatOfInt(1)) THEN RatOfInt(1)
         ELSE IF RatLeq(RatOfInt(10), final_risk) THEN RatOfInt(10)
         ELSE final_risk

\* the ids of the clauses of cs satisfying Test, in list order
IdsWhere(cs, Test(_)) ==
    LET sel == SelectSeq(cs, Test) IN [k \in 1..Len(sel) |-> sel[k].clause_id]

\* the branch of line 209 written as an if, not an elif
MediumBranchIf(c) == c.risk_score >= 4

\* lines 207-212: the three branches of the if / elif / else
HighBranch(c) == c.risk_score >= 7
MediumBranch(c) == ~HighBranch(c) /\ c.risk_score >= 4
LowBranch(c) == ~HighBranch(c) /\ ~(c.risk_score >= 4)

\* _categorize_clauses_by_risk, lines 198-214
categorize_clauses_by_risk(cs) ==
    [high |-> IdsWhere(cs, HighBranch),
     medium |-> IdsWhere(cs, MediumBranch),
     low |-> IdsWhere(cs, LowBranch)]

IsMediumRisk(c) == 4 <= c.risk_score /\ c.risk_score <= 6
IsLowRisk(c) == c.risk_score <= 3

\* _analyze_risk_distribution, lines 216-230
analyze_risk_distribution(cs) ==
    [scores |-> [sc \in { cs[k].risk_score : k \in 1..Len(cs) } |->
                    Cardinality({ k \in 1..Len(cs) : cs[k].risk_score = sc })],
     total_clauses |-> Len(cs),
     high_risk_count |-> Count(cs, IsHighRisk),
     medium_risk_count |-> Count(cs, IsMediumRisk),
     low_risk_count |-> Count(cs, IsLowRisk)]

HasHighRisk(cs, clause_type) ==
    \E k \in 1..Len(cs) : cs[k].clause_type = clause_type /\ cs[k].risk_score >= 7

\* _generate_risk_recommendations, lines 232-280; a recommendation is
\* written as its leading words
generate_risk_recommendations(cs, overall_risk) ==
    LET level == IF RatLeq(RatOfInt(8), overall_risk) THEN <<"CRITICAL">>
                 ELSE IF RatLeq(RatOfInt(6), overall_risk) THEN <<"HIGH RISK">>
                 ELSE IF RatLeq(RatOfInt(4), overall_risk) THEN <<"MODERATE RISK">>
                 ELSE <<"LOW RISK">>
        liability == IF HasHighRisk(cs, "liability")
                     THEN <<"Review liability clauses">> ELSE <<>>
        payment == IF HasHighRisk(cs, "payment_terms")
                   THEN <<"Pay attention to payment terms">> ELSE <<>>
        termination == IF HasHighRisk(cs, "termination")
                       THEN <<"Termination clauses may be unfavorable">> ELSE <<>>
        indemnification == IF HasHighRisk(cs, "indemnification")
                           THEN <<"Indemnification clauses">> ELSE <<>>
        clause_types == { cs[k].clause_type : k \in 1..Len(cs) }
        missing_important == {"termination", "dispute_resolution"} \ clause_types
        missing == IF missing_important # {} /\ Len(cs) > 3
                   THEN <<"Consider adding clauses">> ELSE <<>>
    IN Take(level \o liability \o payment \o termination \o indemnification \o missing, 8)

\* the fallback of lines 40-49 with a recommendation-free result
EmptyAssessmentNoAdvice ==
    [document_id |-> "unknown", overall_risk |-> RatOfInt(5),
     high_risk_clauses |-> <<>>, medium_risk_clauses |-> <<>>,
     low_risk_clauses |-> <<>>,
     risk_distribution |-> <<>>,
     recommendations |-> <<>>]

\* lines 40-49: the result for an empty clause list
EmptyAssessment ==
    [document_id |-> "unknown", overall_risk |-> RatOfInt(5),
     high_risk_clauses |-> <<>>, medium_risk_clauses |-> <<>>,
     low_risk_clauses |-> <<>>,
     risk_distribution |-> <<>>,
     recommendations |-> <<"No clauses found for risk assessment">>]

\* lines 54-79: steps 2 to 5 and the result
Assessment(enhanced) ==
    LET overall_risk == calculate_overall_risk(enhanced)
        risk_categories == categorize_clauses_by_risk(enhanced)
    IN [document_id |-> "doc", overall_risk |-> overall_risk,
        high_risk_clauses |-> risk_categories.high,
        medium_risk_clauses |-> risk_categories.medium,
        low_risk_clauses |-> risk_categories.low,
        risk_distribution |-> analyze_risk_distribution(enhanced),
        recommendations |-> generate_risk_recommendations(enhanced, overall_risk)]

\* models/analysis.py, lines 48-55: what the RiskAssessmentResult
\* constructor accepts (overall_risk: ge=1.0, le=10.0)
RiskAssessmentResultAccepts(r) ==
    RatLeq(RatOfInt(1), r.overall_risk) /\ RatLeq(r.overall_risk, RatOfInt(10))

-----------------------------------------------------------------------------
(* SpecRisk: one run of assess_document_risk, risk_assessor.py lines 33-92 *)
(* The input is a list analyze_document can return: valid clauses with     *)
(* distinct ids, ordered by (risk score, type importance) descending.      *)

RiskTypes == {"liability", "payment_terms", "severability", "other"}
RiskScores == {1, 3, 4, 6, 7, 8, 10}

ClauseKinds == [clause_type : RiskTypes, risk_score : RiskScores]

\* the order of a sort by risk score alone
InRiskOrder(a, b) == a.risk_score >= b.risk_score

\* the order _validate_and_filter_clauses leaves, legal_analyzer.py line 149
InReturnedOrder(a, b) ==
    \/ a.risk_score > b.risk_score
    \/ /\ a.risk_score = b.risk_score
       /\ get_clause_importance(a.clause_type) >= get_clause_importance(b.clause_type)

ClauseLists(n) ==
    { [k \in 1..n |-> [clause_id |-> k,
                       clause_type |-> ks[k].clause_type,
                       risk_score |-> ks[k].risk_score,
                       simplified_text |-> "plain words",
                       risk_explanation |-> OriginalExplanation,
                       recommendations |-> OriginalRecommendations]] :
        ks \in { f \in [1..n -> ClauseKinds] :
                    \A k \in 1..(n - 1) : InReturnedOrder(f[k], f[k + 1]) } }

\* longer lists: n clauses of one type and score
UniformLists(n) ==
    { [k \in 1..n |-> [clause_id |-> k,
                       clause_type |-> kind.clause_type,
                       risk_score |-> kind.risk_score,
                       simplified_text |-> "plain words",
                       risk_explanation |-> OriginalExplanation,
                       recommendations |-> OriginalRecommendations]] : kind \in ClauseKinds }

InitRisk ==
    /\ AnalyzeIdle /\ ClauseIdle /\ QueryIdle /\ ExtIdle
    /\ ra_pc = "start"
    /\ \/ \E n \in 0..MaxClauses : clauses \in ClauseLists(n)
       \/ \E n \in 1..MaxRepeat : clauses \in UniformLists(n)
    /\ enhanced_clauses = <<>>
    /\ assess_calls = 0
    /\ result = NoResult

\* lines 38-52: the empty list is answered at once; otherwise the
\* re-assessment pass starts
BeginAssessment ==
    /\ ra_pc = "start"
    /\ IF clauses = <<>>
       THEN /\ result' = EmptyAssessment
            /\ ra_pc' = IF RiskAssessmentResultAccepts(EmptyAssessment)
                        THEN "done" ELSE "raised"
       ELSE /\ ra_pc' = "enhance"
            /\ UNCHANGED result
    /\ UNCHANGED <<clauses, enhanced_clauses, assess_calls, notRisk>>

NextClauseToEnhance == clauses[Len(enhanced_clauses) + 1]

\* The responses of the supplementary call drawn for a list of clauses: the
\* call fails, or it gives a score other than 5; a score of 9 comes with a
\* revised explanation and revised recommendations, any other score with
\* neither
ListAssessResponses ==
    { r \in RawAssessResponses :
        \/ r.api_error
        \/ LET a == assess_risk(r) IN
             /\ a.risk_score # 5
             /\ (r.risk_explanation # "") <=> (a.risk_score = 9)
             /\ (r.recommendations # <<>>) <=> (a.risk_score = 9) }

\* lines 106-110, 132: a clause that needs no re-assessment is copied
KeepNext ==
    /\ ra_pc = "enhance"
    /\ Len(enhanced_clauses) < Len(clauses)
    /\ ~NeedsReassessment(NextClauseToEnhance)
    /\ enhanced_clauses' = Append(enhanced_clauses, NextClauseToEnhance)
    /\ UNCHANGED <<ra_pc, clauses, assess_calls, result, notRisk>>

\* lines 110-132: the supplementary call for the next clause and its answer
ReassessNext(raw) ==
    /\ ra_pc = "enhance"
    /\ Len(enhanced_clauses) < Len(clauses)
    /\ NeedsReassessment(NextClauseToEnhance)
    /\ assess_calls' = assess_calls + 1
    /\ enhanced_clauses' =
           Append(enhanced_clauses, enhance_clause(NextClauseToEnhance, assess_risk(raw)))
    /\ clauses' = [clauses EXCEPT ![Len(enhanced_clauses) + 1] =
                       clause_after_enhancement(@, assess_risk(raw))]
    /\ UNCHANGED <<ra_pc, result, notRisk>>

\* lines 54-88: aggregation of the enhanced list and the result
Aggregate ==
    /\ ra_pc = "enhance"
    /\ Len(enhanced_clauses) = Len(clauses)
    /\ LET r == Assessment(enhanced_clauses) IN
         IF RiskAssessmentResultAccepts(r)
         THEN result' = r /\ ra_pc' = "done"
         ELSE result' = NoResult /\ ra_pc' = "raised"
    /\ UNCHANGED <<clauses, enhanced_clauses, assess_calls, notRisk>>

NextRisk ==
    \/ BeginAssessment
    \/ KeepNext
    \/ \E raw \in ListAssessResponses : ReassessNext(raw)
    \/ Aggregate

SpecRisk == InitRisk /\ [][NextRisk]_vars

SeqRange(sq) == { sq[k] : k \in 1..Len(sq) }
NoRepeat(sq) == Cardinality(SeqRange(sq)) = Len(sq)
ScoreOfId(id) == LET k == CHOOSE j \in 1..Len(enhanced_clauses) :
                              enhanced_clauses[j].clause_id = id
                 IN enhanced_clauses[k].risk_score

\* C4: every clause id is in exactly one of the three bucket lists: high
\* holds the scores >= 7, medium 4..6, low <= 3; the lists are pairwise
\* disjoint and together hold the ids of all assessed clauses.
C4_BucketPartition ==
    (ra_pc = "done" /\ clauses # <<>>) =>
        LET high == result.high_risk_clauses
            medium == result.medium_risk_clauses
            low == result.low_risk_clauses
        IN /\ SeqRange(high) \cap SeqRange(medium) = {}
           /\ SeqRange(high) \cap SeqRange(low) = {}
           /\ SeqRange(medium) \cap SeqRange(low) = {}
           /\ NoRepeat(high) /\ NoRepeat(medium) /\ NoRepeat(low)
           /\ SeqRange(high) \cup SeqRange(medium) \cup SeqRange(low)
                = { clauses[k].clause_id : k \in 1..Len(clauses) }
           /\ \A id \in SeqRange(high) : ScoreOfId(id) >= 7
           /\ \A id \in SeqRange(medium) : ScoreOfId(id) \in 4..6
           /\ \A id \in SeqRange(low) : ScoreOfId(id) <= 3

\* an assessment with a clause in each bucket
C4_Witness ==
    /\ ra_pc = "done"
    /\ Len(clauses) = 3
    /\ Len(result.high_risk_clauses) = 1
    /\ Len(result.medium_risk_clauses) = 1
    /\ Len(result.low_risk_clauses) = 1

\* C5: the overall risk of every result is between 1.0 and 10.0, and the
\* result is always built (its constructor never rejects the score).
C5_OverallRiskInRange ==
    /\ ra_pc # "raised"
    /\ ra_pc = "done" =>
         /\ RatLeq(RatOfInt(1), result.overall_risk)
         /\ RatLeq(result.overall_risk, RatOfInt(10))

\* a list of more than 5 clauses whose weighted average plus adjustments
\* exceeds 10
C5_Witness ==
    /\ ra_pc = "done"
    /\ Len(clauses) > 5
    /\ ~RatLeq(FinalRisk(enhanced_clauses), RatOfInt(10))
    /\ result.overall_risk = RatOfInt(10)

\* C9: for an empty clause list the run returns overallRisk 5.0, empty
\* buckets and exactly one recommendation, raises nothing and issues no
\* external call.
C9_EmptyListFallback ==
    clauses = <<>> =>
        /\ ra_pc # "raised"
        /\ assess_calls = 0
        /\ ra_pc = "done" =>
             /\ result.overall_risk = RatOfInt(5)
             /\ result.high_risk_clauses = <<>>
             /\ result.medium_risk_clauses = <<>>
             /\ result.low_risk_clauses = <<>>
             /\ Len(result.recommendations) = 1

\* the finished assessment of the empty list
C9_Witness ==
    /\ clauses = <<>>
    /\ ra_pc = "done"
    /\ result.recommendations = <<"No clauses found for risk assessment">>

\* the one boost factor of a score, in tenths
BoostFactor(score) ==
    CASE score >= 8 -> 13
      [] score >= 6 /\ score < 8 -> 11
      [] score < 6 -> 10

RECURSIVE SumTo(_, _)
SumTo(f, n) == IF n = 0 THEN 0 ELSE f[n] + SumTo(f, n - 1)

\* clamp(sum(score_i * w_i) / sum(w_i) + adjustment, 1.0, 10.0) with w_i the
\* type weight times the one boost factor
ClampedWeightedRisk(cs) ==
    LET w == [k \in 1..Len(cs) |->
                 clause_weights(cs[k].clause_type) * BoostFactor(cs[k].risk_score)]
        sw == [k \in 1..Len(cs) |-> cs[k].risk_score * w[k]]
        num == SumTo(sw, Len(cs))
        den == SumTo(w, Len(cs))
        adjustment == calculate_document_risk_adjustments(cs)
        final == Rat(10 * num + adjustment * den, 10 * den)
    IN IF RatLeq(final, RatOfInt(1)) THEN RatOfInt(1)
       ELSE IF RatLeq(RatOfInt(10), final) THEN RatOfInt(10)
       ELSE final

\* C20: for every non-empty clause list the overall risk is
\* clamp(sum(score_i * w_i) / sum(w_i) + adjustment, 1.0, 10.0), where w_i is
\* the type weight of clause i times exactly one boost factor: 1.3 for a
\* score of 8 or more, else 1.1 for a score of 6 or more, else 1.
C20_OverallRiskFormula ==
    (ra_pc = "done" /\ clauses # <<>>) =>
        result.overall_risk = ClampedWeightedRisk(enhanced_clauses)

\* a finished assessment of a list holding a clause of each boost class,
\* whose overall risk is not clamped
C20_Witness ==
    /\ ra_pc = "done"
    /\ \E k1, k2, k3 \in 1..Len(enhanced_clauses) :
          /\ enhanced_clauses[k1].risk_score >= 8
          /\ enhanced_clauses[k2].risk_score \in 6..7
          /\ enhanced_clauses[k3].risk_score < 6
    /\ result.overall_risk = FinalRisk(enhanced_clauses)
    /\ ~RatLeq(RatOfInt(10), result.overall_risk)

\* C15 as stated: assess_document_risk leaves every field of every clause
\* passed in as it was before the call, also when a re-assessment is
\* accepted.
C15_InputUnchanged == [][clauses' = clauses]_vars

\* a finished run after which a clause passed in holds more recommendations
\* than before the call, its other fields being as they were
C15_InputLengthened ==
    /\ ra_pc = "done"
    /\ \E k \in 1..Len(clauses) :
          /\ NeedsReassessment(clauses[k])
          /\ clauses[k].risk_explanation = OriginalExplanation
          /\ Len(clauses[k].recommendations) > Len(OriginalRecommendations)
          /\ clauses[k].recommendations = enhanced_clauses[k].recommendations

\* the state part of C19
ReassessmentPassState ==
    /\ Len(enhanced_clauses) <= Len(clauses)
    /\ ra_pc = "done" => Len(enhanced_clauses) = Len(clauses)
    /\ \A k \in 1..Len(enhanced_clauses) :
          /\ enhanced_clauses[k].clause_id = clauses[k].clause_id
          /\ enhanced_clauses[k].risk_score # clauses[k].risk_score =>
                /\ clauses[k].clause_type \in
                      {"liability", "indemnification", "payment_terms", "termination"}
                /\ clauses[k].risk_score >= 6
                /\ Abs(enhanced_clauses[k].risk_score - clauses[k].risk_score) <= 2
    /\ assess_calls =
          Cardinality({ k \in 1..Len(enhanced_clauses) :
                          /\ clauses[k].clause_type \in
                                {"liability", "indemnification", "payment_terms", "termination"}
                          /\ clauses[k].risk_score >= 6 })

\* what the supplementary call can return
AssessResults == { assess_risk(raw) : raw \in RawAssessResponses }

\* the step part of C19: a step of the pass that issues the supplementary
\* call and gets a revision more than 2 away from the original score adds
\* the original clause to the enhanced list and leaves the input as it was
DiscardedRevisionStep ==
    (ra_pc = "enhance" /\ assess_calls' = assess_calls + 1) =>
        LET original == NextClauseToEnhance
            enhanced == enhanced_clauses'[Len(enhanced_clauses) + 1]
        IN \A a \in AssessResults :
              (/\ Abs(a.risk_score - original.risk_score) > 2
               /\ enhanced = enhance_clause(original, a))
              => /\ enhanced = original
                 /\ clauses' = clauses

\* C19: in the re-assessment pass the enhanced list has the length, order
\* and clause ids of the input; a supplementary call is issued for exactly
\* the clauses of type liability, indemnification, payment_terms or
\* termination with a score of 6 or more; an enhanced score differs from the
\* original only for such a clause and then by at most 2; a revision more
\* than 2 away is discarded, leaving score, explanation and recommendations
\* as in the original.
C19_ReassessmentPass ==
    /\ []ReassessmentPassState
    /\ [][DiscardedRevisionStep]_vars

\* a finished pass over a list with a clause whose revision was taken over,
\* a re-assessed clause left as it was, and a clause that is not re-assessed
C19_Witness ==
    /\ ra_pc = "done"
    /\ \E k1, k2, k3 \in 1..Len(clauses) :
          /\ NeedsReassessment(clauses[k1])
          /\ enhanced_clauses[k1].risk_score # clauses[k1].risk_score
          /\ NeedsReassessment(clauses[k2])
          /\ enhanced_clauses[k2] = clauses[k2]
          /\ enhanced_clauses[k2].recommendations = OriginalRecommendations
          /\ ~NeedsReassessment(clauses[k3])
    /\ assess_calls = 2

-----------------------------------------------------------------------------
(* QueryHandlerAgent: relevance and confidence, query_handler.py           *)
(* A text is the set of the words of Vocabulary it holds; the other words  *)
(* of a text match nothing in the queries considered, so two clauses may   *)
(* hold the same set. A query is its word set and its length in words.     *)

Vocabulary == {"payment", "terminate", "legal", "rent", "the"}

\* line 98, the part within Vocabulary
common_words == {"the"}

\* lines 18-28: the topic patterns and their clause types
question_patterns ==
    { [topic |-> "payment", clause_types |-> {"payment_terms"}],
      [topic |-> "terminat", clause_types |-> {"termination"}],
      [topic |-> "liability", clause_types |-> {"liability"}],
      [topic |-> "confidential", clause_types |-> {"confidentiality"}],
      [topic |-> "intellectual property", clause_types |-> {"intellectual_property"}],
      [topic |-> "dispute", clause_types |-> {"dispute_resolution"}],
      [topic |-> "law", clause_types |-> {"governing_law"}],
      [topic |-> "change", clause_types |-> {"amendment"}],
      [topic |-> "indemnif", clause_types |-> {"indemnification"}] }

\* the topics whose pattern has an alternative that is part of the word:
\* payment|pay in "payment", terminat in "terminate", legal (twice) in "legal"
TopicsOf(word) ==
    CASE word = "payment" -> {"payment"}
      [] word = "terminate" -> {"terminat"}
      [] word = "legal" -> {"dispute", "law"}
      [] OTHER -> {}

\* line 87: re.search(pattern, query_lower)
QueryMatches(pattern, words) == \E w \in words : pattern.topic \in TopicsOf(w)

\* line 90: a word of the pattern occurs in the clause text
TextNames(pattern, text) == \E w \in text : pattern.topic \in TopicsOf(w)

\* lines 94-99: the query keywords
QueryKeywords(words) == words \ common_words

\* lines 86-91: 3.0 for a type match, else 1.0 for a word of the pattern
PatternScore(c, words) ==
    LET typed == { p \in question_patterns :
                     QueryMatches(p, words) /\ c.clause_type \in p.clause_types }
        named == { p \in question_patterns :
                     /\ QueryMatches(p, words)
                     /\ c.clause_type \notin p.clause_types
                     /\ TextNames(p, c.original_text) }
    IN 3 * Cardinality(typed) + Cardinality(named)

\* The relevance score is kept exact as a numerator over ScoreDen(words)
ScoreDen(words) == 2 * Max(1, Cardinality(QueryKeywords(words)))

\* lines 83-115, times ScoreDen
ScoreNum(c, words) ==
    LET qk == QueryKeywords(words)
        den == ScoreDen(words)
        clause_keywords == c.original_text \ common_words
        simplified_keywords == c.simplified_text \ common_words
    IN PatternScore(c, words) * den
       + (IF qk # {} /\ clause_keywords # {}
          THEN 4 * Cardinality(qk \cap clause_keywords) ELSE 0)
       + (IF c.risk_score >= 7 THEN den \div 2 ELSE 0)
       + (IF c.simplified_text # {} /\ qk # {} /\ simplified_keywords # {}
          THEN 3 * Cardinality(qk \cap simplified_keywords) ELSE 0)

\* score >= 0.5
AtLeastThreshold(c, words) == 2 * ScoreNum(c, words) >= ScoreDen(words)

\* score > 0.5
AboveThreshold(c, words) == 2 * ScoreNum(c, words) > ScoreDen(words)

\* line 120: clause_scores.sort(key = score, reverse = True), stable
RECURSIVE InsertByScore(_, _, _)
InsertByScore(x, sorted, words) ==
    IF sorted = <<>> THEN <<x>>
    ELSE IF ScoreNum(Head(sorted), words) >= ScoreNum(x, words)
         THEN <<Head(sorted)>> \o InsertByScore(x, Tail(sorted), words)
         ELSE <<x>> \o sorted

RECURSIVE SortByScore(_, _)
SortByScore(cs, words) ==
    IF cs = <<>> THEN <<>>
    ELSE InsertByScore(cs[Len(cs)], SortByScore(SubSeq(cs, 1, Len(cs) - 1), words), words)

\* the fallback of lines 126-129 left out
NoFallback(sorted) == <<>>

\* lines 126-129: the top clause, and the second when there is one
Fallback(sorted) == Take(sorted, 2)

\* _find_relevant_clauses, lines 75-132
find_relevant_clauses(words, legal_cs) ==
    LET sorted == SortByScore(legal_cs, words)
        Relevant(c) == AboveThreshold(c, words)
        above == Take(SelectSeq(sorted, Relevant), 5)
    IN IF above = <<>> /\ sorted # <<>> THEN Fallback(sorted) ELSE above

\* The answers of gemini_service.answer_query: it raises, or returns a
\* dictionary with or without a confidence (in hundredths)
AnswerResponses ==
    [raised : {TRUE}, has_confidence : {FALSE}, confidence : {0}] \cup
    [raised : {FALSE}, has_confidence : {FALSE}, confidence : {0}] \cup
    [raised : {FALSE}, has_confidence : {TRUE}, confidence : {0, 95}]

\* _generate_answer, lines 179-205: the confidence of answer_data, when it
\* has one; the fallback of a failed call reports 0.1
generate_answer(resp) ==
    IF resp.raised
    THEN [raised |-> FALSE, has_confidence |-> TRUE, confidence |-> 10]
    ELSE resp

\* _calculate_confidence, lines 209-228, in hundredths: the reported
\* confidence (0.5 when absent) and its adjustments
AdjustedConfidence(n_words, relevant, answer_data) ==
    LET c0 == IF answer_data.has_confidence THEN answer_data.confidence ELSE 50
        c1 == IF Len(relevant) >= 3 THEN c0 + 10
              ELSE IF Len(relevant) = 0 THEN c0 - 30 ELSE c0
        c2 == IF n_words >= 8 THEN c1 + 10
              ELSE IF n_words <= 3 THEN c1 - 10 ELSE c1
        has_definitive ==
            \E k \in 1..Len(relevant) :
                relevant[k].clause_type \in {"payment_terms", "termination", "governing_law"}
    IN IF has_definitive THEN c2 + 10 ELSE c2

\* _calculate_confidence without the clamp of line 231
calculate_confidence_unclamped(n_words, relevant, answer_data) ==
    AdjustedConfidence(n_words, relevant, answer_data)

\* _calculate_confidence, lines 207-231, in hundredths
calculate_confidence(n_words, relevant, answer_data) ==
    Max(0, Min(100, AdjustedConfidence(n_words, relevant, answer_data)))

\* models/analysis.py, lines 33-40: what the QueryResult constructor
\* accepts (confidence: ge=0.0, le=1.0)
QueryResultAccepts(confidence) == 0 <= confidence /\ confidence <= 100

-----------------------------------------------------------------------------
(* SpecQuery: POST /query, main.py lines 162-179, orchestrator.py lines    *)
(* 118-140, query_handler.py lines 30-73                                   *)

DocIds == {"A", "B"}

QueryTypes == {"payment_terms", "other"}
QueryScores == {3, 7}
QueryTexts == {{"payment", "the"}, {"legal", "rent"}}
QuerySimplified == {{"the"}, {"rent"}}

QueryKinds ==
    [clause_type : QueryTypes, risk_score : QueryScores,
     original_text : QueryTexts, simplified_text : QuerySimplified]

MkQueryClause(k, kind) ==
    [clause_id |-> k, clause_type |-> kind.clause_type,
     risk_score |-> kind.risk_score,
     original_text |-> kind.original_text,
     simplified_text |-> kind.simplified_text]

\* key_clauses of a stored analysis: in the order analyze_document returns
KeyClauseLists(n) ==
    { [k \in 1..n |-> MkQueryClause(k, ks[k])] :
        ks \in { f \in [1..n -> QueryKinds] :
                    \A k \in 1..(n - 1) : InReturnedOrder(f[k], f[k + 1]) } }

UniformKeyClauseLists(n) ==
    { [k \in 1..n |-> MkQueryClause(k, kind)] : kind \in QueryKinds }

\* len(query.split()): the words of the query once each, or a query made
\* long by repeated and common words
LongQuery == 8
QueryLengths(words) == {Cardinality(words), LongQuery}

Requests ==
    { [document_id |-> d, query |-> w, n_words |-> n] :
        d \in DocIds, w \in SUBSET Vocabulary, n \in 0..LongQuery }

\* Document A has been processed and its analysis stored; B is unknown.
InitQuery ==
    /\ AnalyzeIdle /\ ClauseIdle /\ RiskIdle /\ ExtIdle
    /\ q_pc = "ready"
    /\ analysis_results = {"A"}
    /\ processed_documents = {"A"}
    /\ \E cs \in UNION ({ KeyClauseLists(n) : n \in 0..MaxKeyClauses } \cup
                        { UniformKeyClauseLists(n) : n \in 1..MaxKeyRepeat }) :
          analysis_cache = [d \in {"A"} |-> cs]
    /\ request \in { r \in Requests : r.n_words \in QueryLengths(r.query) }
    /\ relevant_clauses = <<>>
    /\ answer_calls = 0
    /\ response = NoResponse

ErrorResponse(kind) == [kind |-> kind, confidence |-> 0, relevant_clauses |-> <<>>]

\* the test of the spec: no clauses, no answer
RefusesEmptyAnalysis(d) ==
    \/ d \notin DOMAIN analysis_cache
    \/ d \notin processed_documents
    \/ analysis_cache[d] = <<>>

\* orchestrator.handle_user_query, lines 121-128: the ValueErrors
Refuses(d) ==
    \/ d \notin DOMAIN analysis_cache
    \/ d \notin processed_documents

\* main.query_document up to the suspension of handle_query on the answer
\* call: 404 for a document without stored analysis, 500 for an error of
\* the orchestrator, else the relevant clauses are found and answer_query
\* is called. Every document of analysis_results is in analysis_cache and
\* in processed_documents, which process_document fills first.
ServeQuery ==
    /\ q_pc = "ready"
    /\ LET d == request.document_id IN
         IF d \notin analysis_results
         THEN /\ response' = ErrorResponse("HTTP 404")
              /\ q_pc' = "done"
              /\ UNCHANGED <<relevant_clauses, answer_calls>>
         ELSE IF Refuses(d)
         THEN /\ response' = ErrorResponse("HTTP 500")
              /\ q_pc' = "done"
              /\ UNCHANGED <<relevant_clauses, answer_calls>>
         ELSE /\ relevant_clauses' = find_relevant_clauses(request.query, analysis_cache[d])
              /\ answer_calls' = answer_calls + 1
              /\ q_pc' = "answering"
              /\ UNCHANGED response
    /\ UNCHANGED <<analysis_results, analysis_cache, processed_documents, request,
                   notQuery>>

\* handle_query, lines 44-73: the answer call returns or raises; the
\* confidence is computed and the QueryResult built and returned; an
\* exception of its constructor is re-raised and becomes the 500 of main
AnswerArrives(resp) ==
    /\ q_pc = "answering"
    /\ LET confidence == calculate_confidence(request.n_words, relevant_clauses,
                                              generate_answer(resp))
       IN response' =
            IF QueryResultAccepts(confidence)
            THEN [kind |-> "QueryResult",
                  confidence |-> confidence,
                  relevant_clauses |-> [k \in 1..Len(relevant_clauses) |->
                                           relevant_clauses[k].clause_id]]
            ELSE ErrorResponse("HTTP 500")
    /\ q_pc' = "done"
    /\ UNCHANGED <<analysis_results, analysis_cache, processed_documents, request,
                   relevant_clauses, answer_calls, notQuery>>

NextQuery ==
    \/ ServeQuery
    \/ \E resp \in AnswerResponses : AnswerArrives(resp)

SpecQuery == InitQuery /\ [][NextQuery]_vars

Searched == q_pc \in {"answering", "done"} /\ request.document_id \in DOMAIN analysis_cache
KeyClauses == analysis_cache[request.document_id]

\* C7: for a non-empty clause list the relevance engine returns at least 1
\* and at most 5 clauses; it returns none only for the empty list.
C7_RelevantCountBounds ==
    Searched =>
        /\ KeyClauses # <<>> => Len(relevant_clauses) \in 1..5
        /\ relevant_clauses = <<>> => KeyClauses = <<>>

\* six clauses above the threshold, five returned; and a fallback case
C7_Witness ==
    /\ Searched
    /\ Len(KeyClauses) = 6
    /\ \A k \in 1..6 : AboveThreshold(KeyClauses[k], request.query)
    /\ Len(relevant_clauses) = 5

\* the answer data the confidence of the finished query was computed from
AnswerDataOf(resp) == generate_answer(resp)

\* C11: whatever the query, the selected clauses and the confidence the
\* answer collaborator reports (none, or the 0.1 of the failure fallback),
\* an answered query returns a QueryResult whose confidence is in [0,1].
C11_ConfidenceInRange ==
    (q_pc = "done" /\ answer_calls = 1) =>
        /\ response.kind = "QueryResult"
        /\ 0 <= response.confidence /\ response.confidence <= 100

\* adjustments that leave [0,1] above are clamped to 1.0
C11_Witness ==
    /\ q_pc = "done"
    /\ response.kind = "QueryResult"
    /\ response.confidence = 100
    /\ Len(relevant_clauses) >= 3
    /\ request.n_words >= 8
    /\ \E resp \in AnswerResponses :
          AdjustedConfidence(request.n_words, relevant_clauses, AnswerDataOf(resp)) > 100

\* C8 as stated: a query on an analysis with zero clauses ends in an error
\* and makes no answer-generation call.
C8_EmptyAnalysisIsAnError ==
    (q_pc = "done" /\ request.document_id \in DOMAIN analysis_cache
       /\ KeyClauses = <<>>) =>
        /\ response.kind # "QueryResult"
        /\ answer_calls = 0

\* C8 amended: a query on a stored analysis with zero clauses makes one
\* answer-generation call and returns a QueryResult without relevant
\* clauses; a query for a document without stored analysis ends in an
\* error and makes no answer-generation call.
C8_EmptyAnalysisIsAnswered ==
    /\ (Searched /\ KeyClauses = <<>>) =>
          /\ answer_calls = 1
          /\ relevant_clauses = <<>>
          /\ q_pc = "done" =>
               /\ response.kind = "QueryResult"
               /\ response.relevant_clauses = <<>>
    /\ (q_pc = "done" /\ request.document_id \notin analysis_results) =>
          /\ response.kind = "HTTP 404"
          /\ answer_calls = 0

\* the answered query on an analysis without clauses
C8_Witness ==
    /\ q_pc = "done"
    /\ request.document_id = "A"
    /\ analysis_cache["A"] = <<>>
    /\ response.kind = "QueryResult"
    /\ answer_calls = 1

-----------------------------------------------------------------------------
(* SpecContext: _extract_relevant_context, query_handler.py lines 134-177, *)
(* and the context of the prompt, gemini_service.py lines 167-177.         *)
(* Strings are modelled by their lengths in characters.                    *)

\* clause_type.value.replace('_', ' ').title()
TypeTitleLen(clause_type) ==
    CASE clause_type = "payment_terms" -> 13
      [] clause_type = "other" -> 5

\* line 141: "[{TypeTitle}] {original_text}"
ClausePartLen(c) == TypeTitleLen(c.clause_type) + 3 + c.n_chars

\* lines 150-164: the sentences that are relevant, in document order
RelevantSentence(sn) ==
    /\ sn.n_chars >= 20
    /\ sn.overlap >= 2
    /\ ~sn.is_duplicate

\* lines 140-141, 167-168: the parts of the context
ContextParts(selected, document_sentences) ==
    [k \in 1..Len(selected) |-> ClausePartLen(selected[k])]
    \o Take([k \in 1..Len(SelectSeq(document_sentences, RelevantSentence)) |->
                SelectSeq(document_sentences, RelevantSentence)[k].n_chars], 3)

RECURSIVE SumLen(_)
SumLen(parts) == IF parts = <<>> THEN 0 ELSE Head(parts) + SumLen(Tail(parts))

\* line 171: '\n\n'.join(context_parts)
JoinedLen(parts) ==
    IF parts = <<>> THEN 0 ELSE SumLen(parts) + 2 * (Len(parts) - 1)

ContextCap == 3000

\* the truncation of lines 174-175 left out
NotTruncated(n) == n

\* lines 174-175: full_context[:3000] + "..."
Truncated(n) == IF n > ContextCap THEN ContextCap + 3 ELSE n

\* _extract_relevant_context, lines 134-177
extract_relevant_context(selected, document_sentences) ==
    Truncated(JoinedLen(ContextParts(selected, document_sentences)))

\* gemini_service.answer_query, line 170: document_context[:3000]
PromptContext(n) == Min(n, ContextCap)

ContextClauseKinds ==
    [clause_type : {"other"}, n_chars : {150, 2992, 2993}] \cup
    [clause_type : {"payment_terms"}, n_chars : {150}]

SentenceKinds ==
    { [n_chars |-> 20, overlap |-> 2, is_duplicate |-> FALSE],
      [n_chars |-> 19, overlap |-> 2, is_duplicate |-> FALSE],
      [n_chars |-> 1000, overlap |-> 2, is_duplicate |-> FALSE],
      [n_chars |-> 1000, overlap |-> 1, is_duplicate |-> FALSE],
      [n_chars |-> 1000, overlap |-> 2, is_duplicate |-> TRUE] }

InitContext ==
    /\ CoreIdle /\ RecommendIdle /\ RedFlagsIdle /\ LaterIdle /\ FinalIdle
    /\ cx_pc = "start"
    /\ cx_clauses \in UNION { [1..n -> ContextClauseKinds] : n \in 0..MaxContextClauses }
    /\ cx_sentences \in UNION { [1..n -> SentenceKinds] : n \in 0..MaxSentences }
    /\ full_context = 0
    /\ prompt_context = 0

\* handle_query, line 41
ExtractContext ==
    /\ cx_pc = "start"
    /\ full_context' = extract_relevant_context(cx_clauses, cx_sentences)
    /\ cx_pc' = "assembled"
    /\ UNCHANGED <<cx_clauses, cx_sentences, prompt_context, notContext>>

\* _generate_answer, lines 191-195, and answer_query, lines 170-177
PassContext ==
    /\ cx_pc = "assembled"
    /\ prompt_context' = PromptContext(full_context)
    /\ cx_pc' = "passed"
    /\ UNCHANGED <<cx_clauses, cx_sentences, full_context, notContext>>

NextContext ==
    \/ ExtractContext
    \/ PassContext

SpecContext == InitContext /\ [][NextContext]_vars

\* C12 as stated: the context string assembled and passed to the answer
\* collaborator is never longer than 3000 characters.
C12_ContextAtMost3000 ==
    cx_pc \in {"assembled", "passed"} => full_context <= 3000

JoinedContext == JoinedLen(ContextParts(cx_clauses, cx_sentences))

\* C12 amended: the context string assembled and passed to the answer
\* collaborator is never longer than 3003 characters: a combined context of
\* more than 3000 characters is cut to its first 3000 characters followed
\* by a three-character ellipsis, a shorter one is passed whole; the
\* collaborator puts at most 3000 characters of it in its prompt.
C12_ContextAtMost3003 ==
    /\ cx_pc \in {"assembled", "passed"} =>
          /\ full_context <= 3003
          /\ JoinedContext <= 3000 => full_context = JoinedContext
          /\ JoinedContext > 3000 => full_context = 3003
    /\ cx_pc = "passed" => prompt_context <= 3000

\* a combined context of 3001 characters or more, cut and passed on
C12_Witness ==
    /\ cx_pc = "passed"
    /\ JoinedContext > 3000
    /\ full_context = 3003
    /\ prompt_context = 3000

-----------------------------------------------------------------------------
(* SpecRecommend: DocumentAnalysis.recommendations, orchestrator.py lines  *)
(* 226-312 and crew/enhanced_orchestrator.py lines 190-241, 276-322.       *)
(* A recommendation is a triple: its origin and two numbers naming it.     *)

\* dict.fromkeys(items): the first occurrence of every item, in order
RECURSIVE Unique(_)
Unique(items) ==
    IF items = <<>> THEN <<>>
    ELSE LET front == Unique(SubSeq(items, 1, Len(items) - 1))
             x == items[Len(items)]
         IN IF \E k \in 1..Len(front) : front[k] = x THEN front ELSE Append(front, x)

RECURSIVE Flatten(_)
Flatten(lists) == IF lists = <<>> THEN <<>> ELSE Head(lists) \o Flatten(Tail(lists))

HasHighRiskOfType(cs, clause_type) ==
    \E k \in 1..Len(cs) : cs[k].clause_type = clause_type /\ cs[k].risk_score >= 7

\* _generate_fallback_recommendations, lines 266-309, before the cap
FallbackItems(cs, overall_risk) ==
    (IF \E k \in 1..Len(cs) : cs[k].risk_score >= 7
     THEN << <<"template", 1, 0>> >> ELSE <<>>)
    \o (IF HasHighRiskOfType(cs, "payment_terms") THEN << <<"template", 2, 0>> >> ELSE <<>>)
    \o (IF HasHighRiskOfType(cs, "termination") THEN << <<"template", 3, 0>> >> ELSE <<>>)
    \o (IF HasHighRiskOfType(cs, "liability") THEN << <<"template", 4, 0>> >> ELSE <<>>)
    \o (IF overall_risk >= 7 THEN << <<"template", 5, 0>> >>
        ELSE IF overall_risk >= 4 THEN << <<"template", 6, 0>> >> ELSE <<>>)
    \o Flatten([k \in 1..Len(cs) |-> Take(cs[k].recommendations, 2)])

\* the cap of line 312 left out
generate_fallback_recommendations_uncapped(cs, overall_risk) ==
    Unique(FallbackItems(cs, overall_risk))

\* _generate_fallback_recommendations, lines 266-312
generate_fallback_recommendations(cs, overall_risk) ==
    Take(Unique(FallbackItems(cs, overall_risk)), 10)

\* What generate_risk_recommendations gives: it raises, or returns
\* something whose "recommendations" is not a list, or a list of n items
AiRecommendationOutcomes ==
    { [kind |-> "raised", n |-> 0], [kind |-> "not_list", n |-> 0],
      [kind |-> "list", n |-> 0], [kind |-> "list", n |-> 8], [kind |-> "list", n |-> 9] }

AiItems(n) == [j \in 1..n |-> <<"ai", j, 0>>]

\* _generate_ai_recommendations, lines 226-264
generate_ai_recommendations(cs, overall_risk, ai) ==
    IF ai.kind = "list" THEN Take(AiItems(ai.n), 8)
    ELSE generate_fallback_recommendations(cs, overall_risk)

\* The results of the five expert tasks, in the order they ran: a result is
\* absent (the task failed) or a text with some sentences of more than 20
\* characters that hold "recommend".
NoCrewResults == [t \in 1..5 |-> [present |-> FALSE, sentences |-> 0]]
CrewResults ==
    { NoCrewResults,
      [t \in 1..5 |-> [present |-> t = 3, sentences |-> 1]],
      [t \in 1..5 |-> [present |-> TRUE, sentences |-> 0]],
      [t \in 1..5 |-> [present |-> TRUE, sentences |-> 2]] }

\* _extract_crew_recommendations, lines 220-241: every present result adds
\* its sentences until the list holds 2 or more
RECURSIVE CrewSentences(_, _, _)
CrewSentences(crew_results, t, found) ==
    IF t > Len(crew_results) THEN found
    ELSE LET r == crew_results[t]
             room == IF Len(found) >= 2 THEN 1 ELSE 2 - Len(found)
             taken == IF r.present THEN Min(r.sentences, room) ELSE 0
         IN CrewSentences(crew_results, t + 1,
                          found \o [j \in 1..taken |-> <<"crew", t, j>>])

extract_crew_recommendations(crew_results) ==
    Take(CrewSentences(crew_results, 1, <<>>), 8)

\* _merge_crew_results, lines 211-216, and process_document, lines 305-316:
\* the merged list is assigned, then every insight text is appended
Insights(crew_results) ==
    LET Present(r) == r.present
    IN [j \in 1..Len(SelectSeq(crew_results, Present)) |-> <<"insight", j, 0>>]

EnhancedRecommendations(original, crew_results) ==
    original \o extract_crew_recommendations(crew_results) \o Insights(crew_results)

RecClauseTypes == {"payment_terms", "termination", "liability"}
RecOptions(k) ==
    { <<>>, << <<"shared", 0, 0>> >>,
      << <<"clause", k, 1>>, <<"clause", k, 2>>, <<"clause", k, 3>> >> }

RecClauseLists(n) ==
    { cs \in [1..n -> [clause_type : RecClauseTypes, risk_score : {5, 9},
                       recommendations : UNION { RecOptions(k) : k \in 1..n }]] :
        /\ \A k \in 1..n : cs[k].recommendations \in RecOptions(k)
        /\ \A k \in 1..(n - 1) : InReturnedOrder(cs[k], cs[k + 1]) }

InitRecommend ==
    /\ CoreIdle /\ ContextIdle /\ RedFlagsIdle /\ LaterIdle /\ FinalIdle
    /\ rc_pc = "start"
    /\ rc_clauses \in UNION { RecClauseLists(n) : n \in 0..MaxRecClauses }
    /\ rc_overall_risk \in {3, 5, 8}
    /\ recommendations = <<>>

\* OrchestratorAgent.process_document, lines 82-96
GenerateRecommendations(ai) ==
    /\ rc_pc = "start"
    /\ recommendations' = generate_ai_recommendations(rc_clauses, rc_overall_risk, ai)
    /\ rc_pc' = "generated"
    /\ UNCHANGED <<rc_clauses, rc_overall_risk, notRecommend>>

\* EnhancedOrchestrator.process_document, lines 287-288, 319-322: the
\* enhancement is disabled or not requested, or enhance_legal_analysis
\* fails and returns the analysis it was given
ReturnBaseAnalysis ==
    /\ rc_pc = "generated"
    /\ rc_pc' = "returned"
    /\ UNCHANGED <<rc_clauses, rc_overall_risk, recommendations, notRecommend>>

\* EnhancedOrchestrator.process_document, lines 287-316
EnhanceAnalysis(crew_results) ==
    /\ rc_pc = "generated"
    /\ recommendations' = EnhancedRecommendations(recommendations, crew_results)
    /\ rc_pc' = "returned"
    /\ UNCHANGED <<rc_clauses, rc_overall_risk, notRecommend>>

NextRecommend ==
    \/ \E ai \in AiRecommendationOutcomes : GenerateRecommendations(ai)
    \/ ReturnBaseAnalysis
    \/ \E crew_results \in CrewResults : EnhanceAnalysis(crew_results)

SpecRecommend == InitRecommend /\ [][NextRecommend]_vars

-----------------------------------------------------------------------------
(* SpecRedFlags: DocumentAnalysis.red_flags, orchestrator.py lines 393-461 *)
(* A red flag is a triple: its origin and two numbers naming it. A clause  *)
(* carries the number of the first 100 characters of its explanation and   *)
(* the groups of phrases its text holds: 1 unlimited liability, 2          *)
(* one-sided termination, 3 non-refundable fees.                           *)

\* lines 438-442: "Critical risk in {type}: {risk_explanation[:100]}..."
CriticalFlags(cs) ==
    LET Critical(c) == c.risk_score >= 9
        critical_clauses == SelectSeq(cs, Critical)
    IN [k \in 1..Len(critical_clauses) |->
          <<"critical", get_clause_importance(critical_clauses[k].clause_type),
            critical_clauses[k].risk_explanation>>]

\* lines 445-458: the flags of one clause text, in the order tested
PhraseFlags(c) ==
    (IF 1 \in c.phrases THEN << <<"phrase", 1, 0>> >> ELSE <<>>)
    \o (IF 2 \in c.phrases THEN << <<"phrase", 2, 0>> >> ELSE <<>>)
    \o (IF 3 \in c.phrases THEN << <<"phrase", 3, 0>> >> ELSE <<>>)

\* _identify_red_flags, lines 434-461
identify_red_flags(cs) ==
    Take(Unique(CriticalFlags(cs) \o Flatten([k \in 1..Len(cs) |-> PhraseFlags(cs[k])])), 5)

\* What generate_red_flags gives: it raises, or returns something whose
\* "red_flags" is not a list, or a list of n items
AiRedFlagOutcomes ==
    { [kind |-> "raised", n |-> 0], [kind |-> "not_list", n |-> 0],
      [kind |-> "list", n |-> 0], [kind |-> "list", n |-> 6], [kind |-> "list", n |-> 7] }

\* the cut of line 425 left out
AiFlagsNotCut(ai_red_flags) == ai_red_flags

\* line 425: ai_red_flags[:6]
AiFlagsCut(ai_red_flags) == Take(ai_red_flags, 6)

\* line 397: the clauses the AI call is made for
HasCriticalClauses(cs) == \E k \in 1..Len(cs) : cs[k].risk_score >= 8

\* lines 420-425: the AI flags are used when they are a non-empty list
AiFlagsUsable(ai) == ai.kind = "list" /\ ai.n > 0

FlagClauseLists(n) ==
    { cs \in [1..n -> [clause_type : {"liability", "other"}, risk_score : {7, 8, 9},
                       risk_explanation : {1, 2}, phrases : {{}, {1, 2, 3}}]] :
        \A k \in 1..(n - 1) : InReturnedOrder(cs[k], cs[k + 1]) }

InitRedFlags ==
    /\ CoreIdle /\ ContextIdle /\ RecommendIdle /\ LaterIdle /\ FinalIdle
    /\ rf_pc = "start"
    /\ rf_clauses \in UNION { FlagClauseLists(n) : n \in 0..MaxFlagClauses }
    /\ rf_source = "none"
    /\ red_flags = <<>>

\* _identify_ai_red_flags, lines 396-400: no clause scores 8 or more
IdentifyTemplateFlags ==
    /\ rf_pc = "start"
    /\ ~HasCriticalClauses(rf_clauses)
    /\ red_flags' = identify_red_flags(rf_clauses)
    /\ rf_source' = "template"
    /\ rf_pc' = "done"
    /\ UNCHANGED <<rf_clauses, notRedFlags>>

\* _identify_ai_red_flags, lines 402-432: the AI call and its fallbacks
IdentifyAiFlags(ai) ==
    /\ rf_pc = "start"
    /\ HasCriticalClauses(rf_clauses)
    /\ IF AiFlagsUsable(ai)
       THEN /\ red_flags' = AiFlagsCut([j \in 1..ai.n |-> <<"ai", j, 0>>])
            /\ rf_source' = "ai"
       ELSE /\ red_flags' = identify_red_flags(rf_clauses)
            /\ rf_source' = "template"
    /\ rf_pc' = "done"
    /\ UNCHANGED <<rf_clauses, notRedFlags>>

NextRedFlags ==
    \/ IdentifyTemplateFlags
    \/ \E ai \in AiRedFlagOutcomes : IdentifyAiFlags(ai)

SpecRedFlags == InitRedFlags /\ [][NextRedFlags]_vars

\* C14 as stated: the red flags of the DocumentAnalysis never hold more
\* than 5 entries, whether they come from the AI call or from the template
\* fallback.
C14_AtMostFiveRedFlags ==
    rf_pc = "done" => Len(red_flags) <= 5

\* C14 amended: the red flags hold at most 6 entries when they come from
\* the AI call and at most 5 when they come from the template fallback.
C14_RedFlagBounds ==
    rf_pc = "done" =>
        /\ rf_source = "ai" => Len(red_flags) <= 6
        /\ rf_source = "template" => Len(red_flags) <= 5

\* six red flags of the AI call
C14_Witness ==
    /\ rf_pc = "done"
    /\ rf_source = "ai"
    /\ HasCriticalClauses(rf_clauses)
    /\ Len(red_flags) = 6

-----------------------------------------------------------------------------
(* Properties of the analyze_document run *)

RECURSIVE SumCalls(_)
SumCalls(k) == IF k = 0 THEN 0 ELSE calls[k] + SumCalls(k - 1)

\* offsets of the batches of the run
BatchOffsets == { b \in 0..N : b % 5 = 0 /\ b < N }
Finished == an_pc \in {"validate", "done"}

\* C1: whatever subset of the enrichment calls raises, the run never raises,
\* every candidate's call is still issued, and the list handed to validation
\* holds, in candidate order, exactly the candidates whose call did not raise.
C1_FailedCallsAreDropped ==
    /\ an_pc # "raised"
    /\ Finished =>
         /\ \A k \in 1..N : calls[k] >= 1 /\ Resolved(k)
         /\ legal_clauses = SelectIdx(1, N, { k \in 1..N : status[k] = "ok" })
         /\ \A k \in Raised : \A p \in 1..Len(legal_clauses) : legal_clauses[p] # k

\* a run with a failed first call whose sibling and whose next batch succeeded
C1_Witness ==
    /\ an_pc = "done"
    /\ N > 5
    /\ status[1] = "raised" /\ status[2] = "ok" /\ status[6] = "ok"
    /\ Len(legal_clauses) = N - Cardinality(Raised)

\* C2: a call of a batch is started only after every call of each earlier
\* batch has completed or failed and the pause after that batch has elapsed;
\* a pause follows every batch but the last.
C2_BatchesInOrder ==
    /\ \A k \in 1..N : status[k] # "idle" =>
          \A b \in BatchOffsets : b + 5 < k =>
              /\ \A j \in (b + 1)..(b + 5) : Resolved(j)
              /\ b \in slept
    /\ \A b \in slept : b + 5 < N
    /\ Finished => slept = { b \in BatchOffsets : b + 5 < N }

\* the second batch running after the pause that followed the first
C2_Witness ==
    /\ an_pc = "gather"
    /\ i = 5
    /\ status[6] = "outstanding"
    /\ slept = {0}

\* C3: never more than 5 enrichment calls are outstanding, and over the run
\* every candidate receives exactly one call.
C3_AtMostFiveOutstanding ==
    /\ Cardinality(Outstanding) <= 5
    /\ \A k \in 1..N : calls[k] <= 1
    /\ Finished => \A k \in 1..N : calls[k] = 1

\* a full batch in flight
C3_Witness ==
    /\ Cardinality(Outstanding) = 5
    /\ N > 5

\* C10: at most 20 candidates, hence at most 20 enrichment calls in at most
\* 4 batches, whatever the number of spans of the document.
C10_CandidateCap ==
    /\ Len(potential_clauses) <= 20
    /\ SumCalls(N) <= 20
    /\ batches <= 4

\* a finished run on a document with more than 20 distinct spans
C10_Witness ==
    /\ an_pc = "done"
    /\ Len(UniqueClauses(extracted_text, {})) > 20
    /\ N = 20
    /\ SumCalls(N) = 20
    /\ batches = 4

-----------------------------------------------------------------------------
(* SpecDedup: LegalAnalyzerAgent._remove_duplicate_clauses, lines 175-213, *)
(* applied to a clause list and then to its own output. A normalized text  *)
(* is the set of its words (words are numbered): two texts with the same   *)
(* words in another order have similarity 1, so they are duplicates like   *)
(* two equal texts, and the empty text has no words.                       *)

\* ten words shared by the long texts, and two further words
BaseWords == 1..10
ExtraWords == {11, 12}

\* the texts of the clauses: the ten words with or without further words
\* (two such texts differing in one word are more than 90% alike, two
\* differing in two words are not), a short text and the empty text
DedupTexts == { BaseWords \cup e : e \in SUBSET ExtraWords } \cup {{11}, {}}

\* _calculate_text_similarity, lines 202-213, compared with 0.9 (line 192)
SimilarityAbove90(text1, text2) ==
    LET words1 == text1
        words2 == text2
    IN IF words1 = {} \/ words2 = {} THEN FALSE
       ELSE 10 * Cardinality(words1 \cap words2) > 9 * Cardinality(words1 \cup words2)

\* lines 184-194: an exact duplicate, or very similar to a text seen
IsDuplicateText(normalized_text, seen) ==
    \/ normalized_text \in seen
    \/ \E seen_text \in seen : SimilarityAbove90(normalized_text, seen_text)

\* seen_texts holding the text of the clause just visited, kept or not
SeenLastOnly(seen, normalized_text, is_duplicate) == {normalized_text}

\* lines 196-198: the text of a kept clause joins seen_texts
SeenAfter(seen, normalized_text, is_duplicate) ==
    IF is_duplicate THEN seen ELSE seen \cup {normalized_text}

\* the loop of lines 180-198 over the clauses not yet visited
RECURSIVE DedupLoop(_, _, _)
DedupLoop(rest, unique, seen) ==
    IF rest = <<>> THEN unique
    ELSE LET normalized_text == Head(rest).original_text
             is_duplicate == IsDuplicateText(normalized_text, seen)
         IN DedupLoop(Tail(rest),
                      IF is_duplicate THEN unique ELSE Append(unique, Head(rest)),
                      SeenAfter(seen, normalized_text, is_duplicate))

\* _remove_duplicate_clauses, lines 175-200
remove_duplicate_clauses(cs) == DedupLoop(cs, <<>>, {})

DedupLists(n) ==
    { [k \in 1..n |-> [clause_id |-> k, original_text |-> texts[k]]] :
        texts \in [1..n -> DedupTexts] }

InitDedup ==
    /\ CoreIdle /\ ContextIdle /\ RecommendIdle /\ RedFlagsIdle
    /\ DeterminismIdle /\ TwoDocsIdle /\ FinalIdle
    /\ dd_pc = "start"
    /\ dd_clauses \in UNION { DedupLists(n) : n \in 0..MaxDedupClauses }
    /\ dd_once = <<>>
    /\ dd_twice = <<>>

\* the deduplicator applied to L
DedupOnce ==
    /\ dd_pc = "start"
    /\ dd_once' = remove_duplicate_clauses(dd_clauses)
    /\ dd_pc' = "once"
    /\ UNCHANGED <<dd_clauses, dd_twice, notDedup>>

\* the deduplicator applied to its own output
DedupTwice ==
    /\ dd_pc = "once"
    /\ dd_twice' = remove_duplicate_clauses(dd_once)
    /\ dd_pc' = "twice"
    /\ UNCHANGED <<dd_clauses, dd_once, notDedup>>

NextDedup == DedupOnce \/ DedupTwice

SpecDedup == InitDedup /\ [][NextDedup]_vars

\* C17: the clause deduplicator is idempotent: applied to its own output it
\* returns the same list, the same clauses in the same order.
C17_DedupIdempotent ==
    dd_pc = "twice" => dd_twice = dd_once

\* a list whose third text is like the first and like the second while
\* these two are unlike each other: the deduplicator keeps the first two
\* and drops the third, and applied again it keeps the two
C17_Witness ==
    /\ dd_pc = "twice"
    /\ Len(dd_clauses) >= 3
    /\ ~SimilarityAbove90(dd_clauses[1].original_text, dd_clauses[2].original_text)
    /\ dd_clauses[1].original_text # dd_clauses[2].original_text
    /\ SimilarityAbove90(dd_clauses[3].original_text, dd_clauses[1].original_text)
    /\ SimilarityAbove90(dd_clauses[3].original_text, dd_clauses[2].original_text)
    /\ dd_once = SubSeq(dd_clauses, 1, 2)
    /\ dd_twice = dd_once

-----------------------------------------------------------------------------
(* SpecDeterminism: two runs of segmentation, enrichment, validation and   *)
(* aggregation on one document text with one enrichment function. In each *)
(* batch the calls complete in any order. A span carries, besides text,    *)
(* signature and importance, the answers the enrichment function gives for *)
(* its text: raw (the enrichment call) and assess (the supplementary call).*)

\* the text of the k-th span: the first three are long texts that differ
\* by a word, the second like the first and like the third; the others
\* have nothing in common
TextOfSpan(k) ==
    CASE k = 1 -> BaseWords \cup {11}
      [] k = 2 -> BaseWords
      [] k = 3 -> BaseWords \cup {12}
      [] OTHER -> {20 + k}

\* what the enrichment function answers: a failure, a liability clause of
\* score 8, another clause of score 4
RunEnrichResponses ==
    { r \in RawEnrichResponses :
        \/ r = EnrichApiError
        \/ /\ ~r.api_error /\ r.lists_ok /\ r.simplified_text = "plain words"
           /\ r.risk_score.kind = "number"
           /\ <<r.clause_type, r.risk_score.tenths>> \in {<<"liability", 80>>, <<"other", 45>>} }

\* what the supplementary call answers: score 9, explained, with advice
RunAssessResponse ==
    [api_error |-> FALSE, risk_score |-> [kind |-> "number", tenths |-> 99],
     risk_explanation |-> "revised explanation",
     recommendations |-> RevisedRecommendations]

RunSpans(n) ==
    { [k \in 1..n |-> [text |-> TextOfSpan(k), sig |-> k, imp |-> imps[k],
                       raw |-> raws[k], assess |-> RunAssessResponse]] :
        imps \in [1..n -> {0, 1}], raws \in [1..n -> RunEnrichResponses] }

UniformRunSpans(n) ==
    { [k \in 1..n |-> [text |-> TextOfSpan(3 + k), sig |-> k, imp |-> 0,
                       raw |-> r, assess |-> RunAssessResponse]] :
        r \in RunEnrichResponses }

\* line 35: the indices (1-based) of potential_clauses[i:i + batch_size]
BatchOf(candidates, off) == (off + 1)..Min(off + batch_size, Len(candidates))

\* _analyze_single_clause on the k-th candidate (clause_index k - 1), the
\* clause keeping the text of the candidate and the answer of the
\* supplementary call for it
TaskResult(candidates, k) ==
    LET res == analyze_single_clause(candidates[k].raw, k - 1) IN
    IF res.ok
    THEN Ok(res.value @@ [original_text |-> candidates[k].text,
                          assess |-> candidates[k].assess])
    ELSE Exc

\* the results of the batch in the order the tasks completed
ResultsAsCompleted(candidates, off, completed) ==
    [j \in 1..Len(completed) |-> TaskResult(candidates, completed[j])]

\* line 43: asyncio.gather gives the results in the order of the tasks
GatheredResults(candidates, off, completed) ==
    [j \in 1..Len(completed) |-> TaskResult(candidates, off + j)]

\* lines 46-50: the clauses among the results, in order
RECURSIVE SuccessfulResults(_)
SuccessfulResults(batch_results) ==
    IF batch_results = <<>> THEN <<>>
    ELSE (IF Head(batch_results).ok THEN <<Head(batch_results).value>> ELSE <<>>)
         \o SuccessfulResults(Tail(batch_results))

\* line 149: list.sort(key = (risk_score, importance), reverse = True):
\* stable, descending
RECURSIVE InsertByRisk(_, _)
InsertByRisk(x, sorted) ==
    IF sorted = <<>> THEN <<x>>
    ELSE IF InReturnedOrder(Head(sorted), x)
         THEN <<Head(sorted)>> \o InsertByRisk(x, Tail(sorted))
         ELSE <<x>> \o sorted

RECURSIVE SortByRisk(_)
SortByRisk(cs) ==
    IF cs = <<>> THEN <<>>
    ELSE InsertByRisk(cs[Len(cs)], SortByRisk(SubSeq(cs, 1, Len(cs) - 1)))

\* the texts of the spans have 5 meaningful words
IsValidRunClause(c) == is_valid_clause(c, TRUE)

\* _validate_and_filter_clauses, lines 134-151
validate_and_filter_clauses(cs) ==
    SortByRisk(remove_duplicate_clauses(SelectSeq(cs, IsValidRunClause)))

\* _enhance_clause_risk_assessments, lines 94-134, on a whole list
EnhancedList(cs) ==
    [k \in 1..Len(cs) |->
        IF NeedsReassessment(cs[k])
        THEN enhance_clause(cs[k], assess_risk(cs[k].assess))
        ELSE cs[k]]

\* what a run produces: the clauses, the buckets and the overall risk
RunOutput(validated_clauses) ==
    LET r == IF validated_clauses = <<>> THEN EmptyAssessment
             ELSE Assessment(EnhancedList(validated_clauses))
    IN [kind |-> "analysis",
        clauses |-> validated_clauses,
        high_risk_clauses |-> r.high_risk_clauses,
        medium_risk_clauses |-> r.medium_risk_clauses,
        low_risk_clauses |-> r.low_risk_clauses,
        overall_risk |-> r.overall_risk]

RunCandidates == identify_potential_clauses(dt_spans)

InitDeterminism ==
    /\ CoreIdle /\ ContextIdle /\ RecommendIdle /\ RedFlagsIdle
    /\ DedupIdle /\ TwoDocsIdle /\ FinalIdle
    /\ dt_pc = "first"
    /\ dt_spans \in UNION { RunSpans(n) : n \in 0..MaxRunSpans }
                     \cup UNION { UniformRunSpans(n) : n \in 1..MaxRunRepeat }
    /\ dt_offset = 0
    /\ dt_completed = <<>>
    /\ dt_legal_clauses = <<>>
    /\ dt_first = NoOutput
    /\ dt_second = NoOutput

InCompleted(k) == \E j \in 1..Len(dt_completed) : dt_completed[j] = k

\* one of the calls of the batch in flight completes
CompleteTask(k) ==
    /\ dt_pc \in {"first", "second"}
    /\ k \in BatchOf(RunCandidates, dt_offset)
    /\ ~InCompleted(k)
    /\ dt_completed' = Append(dt_completed, k)
    /\ UNCHANGED <<dt_pc, dt_spans, dt_offset, dt_legal_clauses, dt_first, dt_second,
                   notDeterminism>>

\* lines 43-54: every call of the batch has completed, gather returns and
\* the clauses join legal_clauses; the loop moves to the next batch
GatherBatch ==
    /\ dt_pc \in {"first", "second"}
    /\ dt_offset < Len(RunCandidates)
    /\ Len(dt_completed) = Cardinality(BatchOf(RunCandidates, dt_offset))
    /\ dt_legal_clauses' =
          dt_legal_clauses \o
          SuccessfulResults(GatheredResults(RunCandidates, dt_offset, dt_completed))
    /\ dt_offset' = dt_offset + batch_size
    /\ dt_completed' = <<>>
    /\ UNCHANGED <<dt_pc, dt_spans, dt_first, dt_second, notDeterminism>>

\* lines 57-68 and the risk assessment: the loop is over, the clauses are
\* validated and assessed, and the run ends
FinishRun ==
    /\ dt_pc \in {"first", "second"}
    /\ dt_offset >= Len(RunCandidates)
    /\ LET out == RunOutput(validate_and_filter_clauses(dt_legal_clauses)) IN
         IF dt_pc = "first"
         THEN dt_first' = out /\ dt_pc' = "second" /\ UNCHANGED dt_second
         ELSE dt_second' = out /\ dt_pc' = "done" /\ UNCHANGED dt_first
    /\ dt_offset' = 0
    /\ dt_completed' = <<>>
    /\ dt_legal_clauses' = <<>>
    /\ UNCHANGED <<dt_spans, notDeterminism>>

NextDeterminism ==
    \/ \E k \in 1..MaxCandidates : CompleteTask(k)
    \/ GatherBatch
    \/ FinishRun

SpecDeterminism == InitDeterminism /\ [][NextDeterminism]_vars

\* C18: for a fixed document text and a fixed enrichment function, two runs
\* produce the same clauses in the same order, the same buckets and the
\* same overall risk, whatever the completion order of the calls of a batch.
C18_RunsAgree ==
    dt_pc = "done" => dt_second = dt_first

\* two finished runs on a document with two clauses of the same type and
\* score, which the sort leaves in the order they were gathered
C18_Witness ==
    /\ dt_pc = "done"
    /\ dt_first.kind = "analysis"
    /\ Len(dt_first.clauses) >= 2
    /\ dt_first.clauses[1].clause_type = dt_first.clauses[2].clause_type
    /\ dt_first.clauses[1].risk_score = dt_first.clauses[2].risk_score
    /\ dt_first.high_risk_clauses # <<>>

-----------------------------------------------------------------------------
(* SpecTwoDocs: two documents uploaded and processed by background tasks   *)
(* on one event loop: main.py lines 100-206, orchestrator.py lines 30-116, *)
(* enhanced_orchestrator.py lines 276-326. A task runs from one await to   *)
(* the next without interruption; at an await the other task may run.      *)
(* The four dictionaries are functions on the document ids, Absent where   *)
(* the dictionary has no such key.                                         *)

Docs == {"A", "B"}

Absent == [kind |-> "absent"]

\* the awaits of OrchestratorAgent.process_document, in order
Awaits == <<"extract", "analyze", "risk", "summary", "explain", "recommend",
            "categories", "red_flags">>

\* the awaits that can raise: the three agents re-raise, and so does
\* _generate_document_summary (line 168); the other helpers fall back
FailurePoints == {"none", "extract", "analyze", "risk", "summary"}

\* the upload of a document: POST /upload, or POST /upload/enhanced with
\* its use_crew_enhancement parameter (process_document defaults it to True)
Uploads ==
    { [endpoint |-> "upload", use_crew_enhancement |-> TRUE],
      [endpoint |-> "upload_enhanced", use_crew_enhancement |-> TRUE],
      [endpoint |-> "upload_enhanced", use_crew_enhancement |-> FALSE] }

\* how a document is uploaded and what the collaborators do for it: where
\* its processing raises, if anywhere, and whether the expert panel
\* returns insights
DocInputs ==
    { [fail_at |-> f, crew_insights |-> c, endpoint |-> u.endpoint,
       use_crew_enhancement |-> u.use_crew_enhancement] :
        f \in FailurePoints, c \in BOOLEAN, u \in Uploads }

\* a key shared by all documents
SharedKey(document_id) == "A"

\* orchestrator.py line 108: self.analysis_cache[document_id]
CacheKey(document_id) == document_id

\* dict[document_id] = value
Store(dict, document_id, value) == [dict EXCEPT ![document_id] = value]

\* the ProcessingStatus of a document
StatusRecord(document_id, st, progress, current_step, error_message) ==
    [kind |-> "status", document_id |-> document_id, status |-> st,
     progress |-> progress, current_step |-> current_step,
     error_message |-> error_message]

\* status_tracker[document_id].current_step = ...; .progress = ...
SetStep(dict, document_id, progress, current_step) ==
    Store(dict, document_id,
          [dict[document_id] EXCEPT !.progress = progress, !.current_step = current_step])

\* the status written before the await reached next, orchestrator.py lines
\* 38-83
StepBefore(await) ==
    CASE await = "extract" -> <<"Extracting text from document", 20>>
      [] await = "analyze" -> <<"Analyzing legal clauses", 40>>
      [] await = "risk" -> <<"Assessing risk levels", 60>>
      [] await = "summary" -> <<"Generating document summary", 80>>
      [] await = "explain" -> <<"Creating comprehensive explanation", 85>>
      [] await = "recommend" -> <<"Generating personalized recommendations", 95>>

IndexOfAwait(await) == CHOOSE k \in 1..Len(Awaits) : Awaits[k] = await

\* the DocumentAnalysis of a document, lines 89-105, and what the expert
\* panel makes of it, enhanced_orchestrator.py lines 287-316: the fields
\* of the object are overwritten, so the cached object changes with it
BaseAnalysis(document_id) ==
    [kind |-> "analysis", document_id |-> document_id, crew_ai_enhanced |-> FALSE,
     insights |-> FALSE]

EnhancedAnalysis(document_id, input) ==
    [kind |-> "analysis", document_id |-> document_id, crew_ai_enhanced |-> TRUE,
     insights |-> input.crew_insights]

ProcessedDoc(document_id) == [kind |-> "processed", document_id |-> document_id]

\* the state of the program as one record
StoreOf(pc, ps, ar, pd, ac) ==
    [pc |-> pc, processing_status |-> ps, analysis_results |-> ar,
     processed_documents |-> pd, analysis_cache |-> ac]

EmptyStore ==
    StoreOf([d \in Docs |-> "none"], [d \in Docs |-> Absent], [d \in Docs |-> Absent],
            [d \in Docs |-> Absent], [d \in Docs |-> Absent])

\* POST /upload, main.py lines 109-117, and POST /upload/enhanced, lines
\* 241-255: the status entry is created and the background task is
\* scheduled
UploadStep(s, document_id, input) ==
    [s EXCEPT !.pc[document_id] = "uploaded",
              !.processing_status =
                  Store(@, document_id,
                        StatusRecord(document_id, "uploaded", 0,
                                     IF input.endpoint = "upload"
                                     THEN "File uploaded successfully"
                                     ELSE "File uploaded successfully - Enhanced analysis enabled",
                                     ""))]

\* main.py lines 184-190 (328-337 for the enhanced task) and
\* orchestrator.py lines 38-40: the task starts and runs to its first
\* await, the step written by the orchestrator replacing that of the task
StartStep(s, document_id) ==
    [s EXCEPT !.pc[document_id] = "extract",
              !.processing_status =
                  Store(@, document_id,
                        [s.processing_status[document_id] EXCEPT
                            !.status = "processing",
                            !.progress = 20,
                            !.current_step = "Extracting text from document"])]

\* the exception reaches the task and the status stays as it is
FailStepStatusKept(s, document_id, input) ==
    [s EXCEPT !.pc[document_id] = "failed"]

\* main.py lines 200-206 and 347-354: the exception reaches
\* process_document_async or process_document_enhanced_async
FailStep(s, document_id, input) ==
    [s EXCEPT !.pc[document_id] = "failed",
              !.processing_status =
                  Store(@, document_id,
                        [s.processing_status[document_id] EXCEPT
                            !.status = "failed",
                            !.error_message =
                                IF input.endpoint = "upload" THEN "error"
                                ELSE "Document processing encountered an error: error"])]

\* the analysis of the document built and cached, enhanced_orchestrator.py
\* line 287: the expert panel enhances it when it is switched on and the
\* upload asked for it
CompiledAnalysis(document_id, input, enable_crewai) ==
    IF enable_crewai /\ input.use_crew_enhancement
    THEN EnhancedAnalysis(document_id, input)
    ELSE BaseAnalysis(document_id)

\* the step of main.py lines 192-196 with line 192 left out: the status is
\* completed and the result is not stored
CompileStepWithoutResult(s, document_id, input, enable_crewai) ==
    [s EXCEPT !.pc[document_id] = "done",
              !.analysis_cache =
                  [@ EXCEPT ![CacheKey(document_id)] =
                                CompiledAnalysis(document_id, input, enable_crewai)],
              !.processing_status =
                  Store(@, document_id,
                        [s.processing_status[document_id] EXCEPT
                            !.status = "completed", !.progress = 100])]

\* orchestrator.py lines 89-110, enhanced_orchestrator.py lines 287-320 and
\* main.py lines 192-196 (341-345): after the last await the analysis is
\* built and cached, enhanced in place by the expert panel, stored and the
\* status completed; nothing in between suspends the task
CompileStep(s, document_id, input, enable_crewai) ==
    LET analysis == CompiledAnalysis(document_id, input, enable_crewai)
    IN [s EXCEPT !.pc[document_id] = "done",
                 !.analysis_cache = [@ EXCEPT ![CacheKey(document_id)] = analysis],
                 !.analysis_results = Store(@, document_id, analysis),
                 !.processing_status =
                     Store(@, document_id,
                           [s.processing_status[document_id] EXCEPT
                               !.status = "completed",
                               !.progress = 100,
                               !.current_step =
                                   IF input.endpoint = "upload" THEN "Analysis completed"
                                   ELSE "Enhanced analysis completed"])]

\* the await the task is suspended at returns or raises, and the task runs
\* to its next await or to its end
ResumeStep(s, document_id, input, enable_crewai) ==
    LET at == s.pc[document_id]
        k == IndexOfAwait(at)
        stored == IF at = "extract"
                  THEN [s EXCEPT !.processed_documents =
                                     Store(@, document_id, ProcessedDoc(document_id))]
                  ELSE s
    IN IF input.fail_at = at THEN FailStep(s, document_id, input)
       ELSE IF k = Len(Awaits) THEN CompileStep(stored, document_id, input, enable_crewai)
       ELSE [stored EXCEPT
                !.pc[document_id] = Awaits[k + 1],
                !.processing_status =
                    IF Awaits[k + 1] \in {"categories", "red_flags"} THEN @
                    ELSE SetStep(@, document_id, StepBefore(Awaits[k + 1])[2],
                                 StepBefore(Awaits[k + 1])[1])]

\* one step of the task of a document
TaskStep(s, document_id, input, enable_crewai) ==
    IF s.pc[document_id] = "uploaded" THEN StartStep(s, document_id)
    ELSE ResumeStep(s, document_id, input, enable_crewai)

TaskOver(s, document_id) == s.pc[document_id] \in {"done", "failed"}

\* the document uploaded and processed with no other document around
RECURSIVE RunToEnd(_, _, _, _)
RunToEnd(s, document_id, input, enable_crewai) ==
    IF TaskOver(s, document_id) THEN s
    ELSE RunToEnd(TaskStep(s, document_id, input, enable_crewai),
                  document_id, input, enable_crewai)

ProcessedAlone(document_id, input, enable_crewai) ==
    RunToEnd(UploadStep(EmptyStore, document_id, input), document_id, input, enable_crewai)

CurrentStore ==
    StoreOf(td_pc, td_processing_status, td_analysis_results,
            td_processed_documents, td_analysis_cache)

BecomesStore(s) ==
    /\ td_pc' = s.pc
    /\ td_processing_status' = s.processing_status
    /\ td_analysis_results' = s.analysis_results
    /\ td_processed_documents' = s.processed_documents
    /\ td_analysis_cache' = s.analysis_cache

InitTwoDocs ==
    /\ CoreIdle /\ ContextIdle /\ RecommendIdle /\ RedFlagsIdle
    /\ DedupIdle /\ DeterminismIdle /\ FinalIdle
    /\ td_input \in [Docs -> DocInputs]
    /\ td_enable_crewai \in BOOLEAN
    /\ td_pc = EmptyStore.pc
    /\ td_processing_status = EmptyStore.processing_status
    /\ td_analysis_results = EmptyStore.analysis_results
    /\ td_processed_documents = EmptyStore.processed_documents
    /\ td_analysis_cache = EmptyStore.analysis_cache
    /\ td_runs = [d \in Docs |-> 0]

\* POST /upload or POST /upload/enhanced for a document: the id is a fresh
\* uuid4 (main.py lines 91, 227)
Upload(document_id) ==
    /\ td_pc[document_id] = "none"
    /\ BecomesStore(UploadStep(CurrentStore, document_id, td_input[document_id]))
    /\ UNCHANGED <<td_input, td_enable_crewai, td_runs, notTwoDocs>>

\* the background task of a document runs from one await to the next
RunTask(document_id) ==
    /\ td_pc[document_id] \notin {"none", "done", "failed"}
    /\ BecomesStore(TaskStep(CurrentStore, document_id, td_input[document_id],
                             td_enable_crewai))
    /\ td_runs' = IF td_pc[document_id] = "uploaded"
                  THEN [td_runs EXCEPT ![document_id] = @ + 1]
                  ELSE td_runs
    /\ UNCHANGED <<td_input, td_enable_crewai, notTwoDocs>>

NextTwoDocs ==
    \/ \E document_id \in Docs : Upload(document_id)
    \/ \E document_id \in Docs : RunTask(document_id)

SpecTwoDocs == InitTwoDocs /\ [][NextTwoDocs]_vars

\* the entries of a document in the four dictionaries
EntriesOf(s, document_id) ==
    <<s.processing_status[document_id], s.analysis_results[document_id],
      s.processed_documents[document_id], s.analysis_cache[document_id]>>

\* a step that is not a step of the document leaves its entries alone
WritesOwnKeyOnly ==
    \A document_id \in Docs :
        td_pc'[document_id] = td_pc[document_id] =>
            /\ td_processing_status'[document_id] = td_processing_status[document_id]
            /\ td_analysis_results'[document_id] = td_analysis_results[document_id]
            /\ td_processed_documents'[document_id] = td_processed_documents[document_id]
            /\ td_analysis_cache'[document_id] = td_analysis_cache[document_id]

\* the entries of a document whose task is over are those it has when it
\* is processed alone
FinalAsAlone ==
    \A document_id \in Docs :
        TaskOver(CurrentStore, document_id) =>
            EntriesOf(CurrentStore, document_id) =
                EntriesOf(ProcessedAlone(document_id, td_input[document_id],
                                         td_enable_crewai), document_id)

\* C16: when two distinct documents are processed by interleaved
\* background tasks, every write made while processing one of them to
\* processing_status, analysis_results, processed_documents and
\* analysis_cache targets its own key, so the final status and the stored
\* analysis of the other are what they are when it is processed alone.
C16_DocumentsIndependent ==
    /\ [][WritesOwnKeyOnly]_vars
    /\ []FinalAsAlone

\* the task of B has completed while the task of A, started before, is
\* suspended at the await of the risk assessment, and the entries of A are
\* those its own task wrote
C16_Witness ==
    /\ td_pc["A"] = "risk"
    /\ td_pc["B"] = "done"
    /\ td_processing_status["A"].progress = 60
    /\ td_processing_status["A"].status = "processing"
    /\ td_processing_status["B"].status = "completed"
    /\ td_analysis_results["A"] = Absent
    /\ td_analysis_cache["A"] = Absent
    /\ td_analysis_results["B"].document_id = "B"
    /\ td_analysis_cache["B"] = td_analysis_results["B"]
    /\ td_processed_documents["A"].document_id = "A"

-----------------------------------------------------------------------------
(* SpecAdjust: _calculate_document_risk_adjustments (risk_assessor.py      *)
(* lines 166-196) applied to a clause list. The function counts clauses,   *)
(* so the lists are runs of like clauses, one run per kind of clause.      *)

\* the kinds of clause of the lists: type and risk score
AdjustKinds ==
    << [clause_type |-> "liability", risk_score |-> 9],
       [clause_type |-> "indemnification", risk_score |-> 8],
       [clause_type |-> "liability", risk_score |-> 7],
       [clause_type |-> "indemnification", risk_score |-> 6],
       [clause_type |-> "liability", risk_score |-> 5],
       [clause_type |-> "payment_terms", risk_score |-> 7],
       [clause_type |-> "other", risk_score |-> 2],
       [clause_type |-> "severability", risk_score |-> 3],
       [clause_type |-> "force_majeure", risk_score |-> 6] >>

Repeat(c, n) == [k \in 1..n |-> c]

\* the list made of counts[k] clauses of each kind k, kind after kind
RECURSIVE ListOfRuns(_, _)
ListOfRuns(counts, k) ==
    IF k > Len(AdjustKinds) THEN <<>>
    ELSE Repeat(AdjustKinds[k], counts[k]) \o ListOfRuns(counts, k + 1)

\* _calculate_overall_risk returns before line 159 on an empty list, so the
\* lists have from 1 to MaxAdjustClauses clauses
InitAdjust ==
    /\ CoreIdle /\ ContextIdle /\ RecommendIdle /\ RedFlagsIdle /\ LaterIdle
    /\ ValidateIdle /\ IdentifyIdle /\ RelevantIdle
    /\ aj_pc = "start"
    /\ \E n1 \in 0..MaxAdjustClauses :
       \E n2 \in 0..(MaxAdjustClauses - n1) :
       \E n3 \in 0..(MaxAdjustClauses - n1 - n2) :
       \E n4 \in 0..(MaxAdjustClauses - n1 - n2 - n3) :
       \E n5 \in 0..(MaxAdjustClauses - n1 - n2 - n3 - n4) :
       \E n6 \in 0..(MaxAdjustClauses - n1 - n2 - n3 - n4 - n5) :
       \E n7 \in 0..(MaxAdjustClauses - n1 - n2 - n3 - n4 - n5 - n6) :
       \E n8 \in 0..(MaxAdjustClauses - n1 - n2 - n3 - n4 - n5 - n6 - n7) :
       \E n9 \in 0..(MaxAdjustClauses - n1 - n2 - n3 - n4 - n5 - n6 - n7 - n8) :
           /\ n1 + n2 + n3 + n4 + n5 + n6 + n7 + n8 + n9 >= 1
           /\ aj_clauses = ListOfRuns(<<n1, n2, n3, n4, n5, n6, n7, n8, n9>>, 1)
    /\ aj_adjustment = 0

\* line 159: risk_adjustments = self._calculate_document_risk_adjustments(clauses)
CalculateAdjustments ==
    /\ aj_pc = "start"
    /\ aj_adjustment' = calculate_document_risk_adjustments(aj_clauses)
    /\ aj_pc' = "done"
    /\ UNCHANGED <<aj_clauses, notAdjust>>

NextAdjust == CalculateAdjustments

SpecAdjust == InitAdjust /\ [][NextAdjust]_vars

\* the clauses of the list that are of one of the types and score in lo..hi
NumberOf(cs, types, lo, hi) ==
    Cardinality({ k \in 1..Len(cs) :
                    cs[k].clause_type \in types /\ cs[k].risk_score \in lo..hi })

AllTypes == { AdjustKinds[k].clause_type : k \in 1..Len(AdjustKinds) }

\* T, in tenths: the tier of the ratio of clauses scoring 7 or more
RatioTier(cs) ==
    LET high == NumberOf(cs, AllTypes, 7, 10) IN
    IF 10 * high > 3 * Len(cs) THEN 5
    ELSE IF 100 * high > 15 * Len(cs) THEN 2
    ELSE 0

\* C21: the document-level adjustment equals T + 0.3*a + 0.1*b + P, where
\* T is 0.5 if the ratio of clauses scoring 7 or more exceeds 0.3, else 0.2
\* if it exceeds 0.15, else 0 (never 0.7), a is the number of liability or
\* indemnification clauses scoring 8 or more, b the number of those
\* scoring 6 or 7, and P is 0.2 if the list has more than 5 clauses and no
\* severability or force_majeure clause, else 0; 10 clauses with 4 scoring
\* 7 or more get T = 0.5. The amounts are in tenths.
C21_AdjustmentFormula ==
    aj_pc = "done" =>
        LET T == RatioTier(aj_clauses)
            a == NumberOf(aj_clauses, {"liability", "indemnification"}, 8, 10)
            b == NumberOf(aj_clauses, {"liability", "indemnification"}, 6, 7)
            P == IF /\ Len(aj_clauses) > 5
                    /\ NumberOf(aj_clauses, {"severability", "force_majeure"}, 1, 10) = 0
                 THEN 2 ELSE 0
        IN /\ aj_adjustment = T + 3 * a + b + P
           /\ T \in {0, 2, 5}
           /\ (Len(aj_clauses) = 10 /\ NumberOf(aj_clauses, AllTypes, 7, 10) = 4) => T = 5

\* ten clauses, four of them scoring 7 or more, one of them a liability
\* clause scoring 9 and one a liability clause scoring 7, and one
\* severability clause: 0.5 + 0.3 + 0.1 + 0
C21_Witness ==
    /\ aj_pc = "done"
    /\ Len(aj_clauses) = 10
    /\ NumberOf(aj_clauses, AllTypes, 7, 10) = 4
    /\ NumberOf(aj_clauses, {"liability"}, 9, 9) = 1
    /\ NumberOf(aj_clauses, {"liability"}, 7, 7) = 1
    /\ NumberOf(aj_clauses, {"indemnification"}, 1, 10) = 0
    /\ NumberOf(aj_clauses, {"severability"}, 1, 10) = 1
    /\ aj_adjustment = 9

-----------------------------------------------------------------------------
(* SpecValidate: LegalAnalyzerAgent._validate_and_filter_clauses, lines    *)
(* 134-151, applied to a clause list. A text is the set of its words, each *)
(* occurring once and separated by single spaces; the words numbered up to *)
(* 99 are alphabetic words of 5 letters, the others are numbers of 20      *)
(* digits.                                                                 *)

\* word.isalpha() and len(word) > 3, line 169
IsMeaningfulWord(word) == word < 100
WordLength(word) == IF word < 100 THEN 5 ELSE 20

RECURSIVE SumOfLengths(_)
SumOfLengths(words) ==
    IF words = {} THEN 0
    ELSE LET word == CHOOSE w \in words : TRUE
         IN WordLength(word) + SumOfLengths(words \ {word})

\* len(clause.original_text.strip()), line 156
StrippedLength(text) ==
    IF text = {} THEN 0 ELSE SumOfLengths(text) + Cardinality(text) - 1

\* lines 168-169
meaningful_words(text) == { word \in text : IsMeaningfulWord(word) }

\* clause.simplified_text.strip(), line 160
Strip(string) == IF string = " " THEN "" ELSE string

\* _is_valid_clause with only the last three tests
IsValidClauseAnyLength(c) ==
    is_valid_clause([c EXCEPT !.simplified_text = Strip(@)],
                    Cardinality(meaningful_words(c.original_text)) >= 5)

\* _is_valid_clause, lines 153-173, the four tests made on the clause
IsValidClause(c) ==
    /\ StrippedLength(c.original_text) >= 50
    /\ is_valid_clause([c EXCEPT !.simplified_text = Strip(@)],
                       Cardinality(meaningful_words(c.original_text)) >= 5)

\* lines 146-149 in the other order: the sort, then the deduplication
validate_and_filter_sort_first(cs) ==
    remove_duplicate_clauses(SortByRisk(SelectSeq(cs, IsValidClause)))

\* _validate_and_filter_clauses, lines 134-151
validate_and_filter(cs) ==
    SortByRisk(remove_duplicate_clauses(SelectSeq(cs, IsValidClause)))

\* the texts of the clauses: three long texts, the second like the first
\* and like the third, which are unlike each other; a text of 50
\* characters with 5 meaningful words; a text of 29 characters with 5
\* meaningful words; a text of 65 characters with 4 meaningful words
FirstText == BaseWords \cup {11}
SecondText == BaseWords
ThirdText == BaseWords \cup {12}
OtherText == {21, 22, 23, 24, 25, 100}
ShortText == {21, 22, 23, 24, 25}
FewWordsText == {21, 22, 23, 24, 100, 101}

ValidateKind(text, simplified_text, clause_type, risk_score) ==
    [original_text |-> text, simplified_text |-> simplified_text,
     clause_type |-> clause_type, risk_score |-> risk_score]

\* the kinds of clause of the lists: valid clauses of several types and
\* scores, and clauses failing one of the tests
ValidateKinds ==
    { ValidateKind(FirstText, "plain words", "other", 2),
      ValidateKind(FirstText, "plain words", "liability", 9),
      ValidateKind(SecondText, "plain words", "other", 2),
      ValidateKind(SecondText, "plain words", "other", 9),
      ValidateKind(ThirdText, "plain words", "other", 9),
      ValidateKind(ThirdText, "plain words", "payment_terms", 5),
      ValidateKind(OtherText, "plain words", "liability", 9),
      ValidateKind(OtherText, "plain words", "payment_terms", 5),
      ValidateKind(OtherText, "plain words", "other", 2),
      ValidateKind(OtherText, "plain words", "other", 9),
      ValidateKind(ShortText, "plain words", "liability", 9),
      ValidateKind(FewWordsText, "plain words", "liability", 9),
      ValidateKind(OtherText, " ", "liability", 9) }

\* the list of the clauses of the kinds given, numbered in order
ValidateList(kinds) == [k \in 1..Len(kinds) |-> kinds[k] @@ [clause_id |-> k]]

InitValidate ==
    /\ CoreIdle /\ ContextIdle /\ RecommendIdle /\ RedFlagsIdle /\ LaterIdle
    /\ AdjustIdle /\ IdentifyIdle /\ RelevantIdle
    /\ vf_pc = "start"
    /\ \E n \in 0..MaxValidateClauses :
           \E kinds \in [1..n -> ValidateKinds] : vf_clauses = ValidateList(kinds)
    /\ vf_validated = <<>>

\* legal_analyzer.py line 57: validated_clauses =
\* self._validate_and_filter_clauses(legal_clauses)
ValidateAndFilter ==
    /\ vf_pc = "start"
    /\ vf_validated' = validate_and_filter(vf_clauses)
    /\ vf_pc' = "done"
    /\ UNCHANGED <<vf_clauses, notValidate>>

NextValidate == ValidateAndFilter

SpecValidate == InitValidate /\ [][NextValidate]_vars

\* the clause of the input numbered k is in the list returned
Survives(k) == \E m \in 1..Len(vf_validated) : vf_validated[m].clause_id = k

\* the list returned is made of clauses of the input, each at most once
IsSubCollection ==
    /\ \A m \in 1..Len(vf_validated) :
          /\ vf_validated[m].clause_id \in 1..Len(vf_clauses)
          /\ vf_validated[m] = vf_clauses[vf_validated[m].clause_id]
    /\ \A m, n \in 1..Len(vf_validated) :
          vf_validated[m].clause_id = vf_validated[n].clause_id => m = n

\* the importance rank of a clause type
ImportanceRank ==
    [liability |-> 10, payment_terms |-> 9, termination |-> 8, indemnification |-> 7,
     intellectual_property |-> 6, confidentiality |-> 5, dispute_resolution |-> 4,
     governing_law |-> 3, amendment |-> 2, severability |-> 1, other |-> 0]

\* the types and the scores of the clauses of a list
TypesOf(cs) == [k \in 1..Len(cs) |-> cs[k].clause_type]
ScoresOf(cs) == [k \in 1..Len(cs) |-> cs[k].risk_score]

\* C22: the list returned by _validate_and_filter_clauses is ordered
\* descending by the pair (riskScore, importance rank of the clause type):
\* for a clause a placed before a clause b, a.riskScore > b.riskScore, or
\* the scores are equal and rank(a.type) >= rank(b.type), with the ranks
\* liability 10 down to other 0; three clauses of scores 9, 5, 2 and types
\* liability, payment_terms, other keep that order.
C22_SortedByRiskAndImportance ==
    vf_pc = "done" =>
        /\ \A m, n \in 1..Len(vf_validated) :
              m < n =>
                 LET a == vf_validated[m]
                     b == vf_validated[n]
                 IN \/ a.risk_score > b.risk_score
                    \/ /\ a.risk_score = b.risk_score
                       /\ ImportanceRank[a.clause_type] >= ImportanceRank[b.clause_type]
        /\ ( /\ ScoresOf(vf_clauses) = <<9, 5, 2>>
             /\ TypesOf(vf_clauses) = <<"liability", "payment_terms", "other">>
             /\ Len(vf_validated) = 3 )
           => vf_validated = vf_clauses

\* two valid clauses of score 9 with unlike texts, the clause of type other
\* before the liability clause: the liability clause is returned first
C22_Witness ==
    /\ vf_pc = "done"
    /\ Len(vf_clauses) = 3
    /\ ScoresOf(vf_clauses) = <<9, 9, 5>>
    /\ TypesOf(vf_clauses) = <<"other", "liability", "payment_terms">>
    /\ Len(vf_validated) = 3
    /\ vf_validated[1].clause_id = 2
    /\ vf_validated[2].clause_id = 1
    /\ vf_validated[3].clause_id = 3

\* C23: _validate_and_filter_clauses returns a sub-collection of its input
\* in which every clause has a stripped originalText of at least 50
\* characters, a non-empty stripped simplifiedText, a riskScore from 1 to
\* 10 and at least 5 alphabetic words longer than 3 characters in
\* originalText; a clause failing one of the conditions is not returned.
C23_OnlyValidClausesReturned ==
    vf_pc = "done" =>
        /\ IsSubCollection
        /\ \A k \in 1..Len(vf_clauses) :
              Survives(k) =>
                 /\ StrippedLength(vf_clauses[k].original_text) >= 50
                 /\ Strip(vf_clauses[k].simplified_text) # ""
                 /\ vf_clauses[k].risk_score \in 1..10
                 /\ Cardinality({ w \in vf_clauses[k].original_text : IsMeaningfulWord(w) }) >= 5

\* a list of a clause with a short text, a clause with too few meaningful
\* words and a clause with a blank simplified text, each a liability
\* clause of score 9: nothing is returned; and a list of such a clause
\* between two valid ones: the two are returned
C23_Witness ==
    /\ vf_pc = "done"
    /\ Len(vf_clauses) = 3
    /\ \/ /\ vf_clauses[1].original_text = ShortText
          /\ vf_clauses[2].original_text = FewWordsText
          /\ vf_clauses[3].simplified_text = " "
          /\ vf_validated = <<>>
       \/ /\ vf_clauses[2].original_text = ShortText
          /\ vf_clauses[1].original_text = FirstText
          /\ vf_clauses[3].original_text = OtherText
          /\ Len(vf_validated) = 2

\* the clauses of the input numbered j and k are valid and their texts
\* are equal or more than 90% alike
NearIdentical(j, k) ==
    /\ IsValidClause(vf_clauses[j]) /\ IsValidClause(vf_clauses[k])
    /\ \/ vf_clauses[j].original_text = vf_clauses[k].original_text
       \/ SimilarityAbove90(vf_clauses[j].original_text, vf_clauses[k].original_text)

NoTwoSurvivorsAlike ==
    \A j, k \in 1..Len(vf_clauses) :
        (j < k /\ Survives(j) /\ Survives(k)) => ~NearIdentical(j, k)

\* C24 as stated: after clause deduplication no two surviving clauses are
\* more than 90% alike or of equal text, and of two near-identical valid
\* clauses exactly one survives, the one that precedes the other in the
\* input, whatever their risk scores.
C24_EarlierOfTwoSurvives ==
    vf_pc = "done" =>
        /\ NoTwoSurvivorsAlike
        /\ \A j, k \in 1..Len(vf_clauses) :
              (j < k /\ NearIdentical(j, k)) => (Survives(j) /\ ~Survives(k))

\* C24: after clause deduplication no two surviving clauses are more than
\* 90% alike or of equal text; of two near-identical valid clauses at most
\* one survives, and when the earlier of the two in the input is not
\* itself near-identical to a surviving clause before it, exactly one
\* survives: the earlier one, whatever their risk scores.
C24_EarlierSurvivesUnlessDuplicate ==
    vf_pc = "done" =>
        /\ NoTwoSurvivorsAlike
        /\ \A j, k \in 1..Len(vf_clauses) :
              (j < k /\ NearIdentical(j, k)) =>
                 /\ ~(Survives(j) /\ Survives(k))
                 /\ (\A h \in 1..(j - 1) : ~(Survives(h) /\ NearIdentical(h, j)))
                       => (Survives(j) /\ ~Survives(k))

\* three valid clauses of scores 2, 9, 9, the second like the first and
\* like the third, which are unlike each other: the first survives though
\* the second scores higher, and the third survives though it is like the
\* second, which precedes it
C24_Witness ==
    /\ vf_pc = "done"
    /\ Len(vf_clauses) = 3
    /\ ScoresOf(vf_clauses) = <<2, 9, 9>>
    /\ NearIdentical(1, 2) /\ NearIdentical(2, 3) /\ ~NearIdentical(1, 3)
    /\ Survives(1) /\ ~Survives(2) /\ Survives(3)

-----------------------------------------------------------------------------
(* SpecIdentify: the deduplication, sort and cut of                        *)
(* identify_potential_clauses, text_processor.py lines 300-315, on the     *)
(* list the two scans build: the spans of the paragraphs (lines 286-291),  *)
(* then the spans of the sentences (lines 294-298). A span carries its     *)
(* text, the signature of its first ten words, its importance score (a     *)
(* level) and the scan it comes from.                                      *)

IdentifySignatures == {1, 2}
IdentifyImportances == {0, 1, 2}

\* the list of the scans: the first paragraphs spans come from the
\* paragraph scan, the others from the sentence scan
ScannedSpans(sigs, imps, paragraphs) ==
    [k \in 1..Len(sigs) |->
        [text |-> k, sig |-> sigs[k], imp |-> imps[k],
         source |-> IF k <= paragraphs THEN "paragraph" ELSE "sentence"]]

InitIdentify ==
    /\ CoreIdle /\ ContextIdle /\ RecommendIdle /\ RedFlagsIdle /\ LaterIdle
    /\ AdjustIdle /\ ValidateIdle /\ RelevantIdle
    /\ ip_pc = "start"
    /\ \E n \in 0..MaxIdentifySpans :
       \E paragraphs \in 0..n :
       \E sigs \in [1..n -> IdentifySignatures] :
       \E imps \in [1..n -> IdentifyImportances] :
           ip_clauses = ScannedSpans(sigs, imps, paragraphs)
    /\ ip_candidates = <<>>

\* lines 300-315
IdentifyPotentialClauses ==
    /\ ip_pc = "start"
    /\ ip_candidates' = identify_potential_clauses(ip_clauses)
    /\ ip_pc' = "done"
    /\ UNCHANGED <<ip_clauses, notIdentify>>

NextIdentify == IdentifyPotentialClauses

SpecIdentify == InitIdentify /\ [][NextIdentify]_vars

\* the span numbered k of the scans is among the candidates returned
IsCandidate(k) == \E m \in 1..Len(ip_candidates) : ip_candidates[m] = ip_clauses[k]

\* C25: in the output of identify_potential_clauses no two candidates
\* share a signature, the candidates are in non-increasing importanceScore
\* order, and when a paragraph-level and a sentence-level span share a
\* signature the paragraph-level span is the one retained: the candidate
\* of a signature is its first occurrence in the scans (and it is returned
\* unless the cut to 20 candidates removes it).
C25_UniqueSortedParagraphFirst ==
    ip_pc = "done" =>
        /\ \A m, n \in 1..Len(ip_candidates) :
              /\ (m # n) => ip_candidates[m].sig # ip_candidates[n].sig
              /\ (m < n) => ip_candidates[m].imp >= ip_candidates[n].imp
        /\ \A m \in 1..Len(ip_candidates) :
              \E k \in 1..Len(ip_clauses) : ip_candidates[m] = ip_clauses[k]
        /\ \A j, k \in 1..Len(ip_clauses) :
              (j < k /\ ip_clauses[j].sig = ip_clauses[k].sig) => ~IsCandidate(k)
        /\ \A j, k \in 1..Len(ip_clauses) :
              ( /\ ip_clauses[j].source = "paragraph"
                /\ ip_clauses[k].source = "sentence"
                /\ ip_clauses[j].sig = ip_clauses[k].sig )
              => /\ ~IsCandidate(k)
                 /\ Len(ip_candidates) < MaxCandidates =>
                       \E m \in 1..Len(ip_candidates) :
                           /\ ip_candidates[m].sig = ip_clauses[j].sig
                           /\ ip_candidates[m].source = "paragraph"

\* a paragraph span and a sentence span of one signature, the sentence
\* span of higher importance, and a sentence span of another signature of
\* the highest importance: that one is returned first, then the paragraph
\* span
C25_Witness ==
    /\ ip_pc = "done"
    /\ Len(ip_clauses) = 3
    /\ ip_clauses[1].source = "paragraph" /\ ip_clauses[1].sig = 1 /\ ip_clauses[1].imp = 0
    /\ ip_clauses[2].source = "sentence" /\ ip_clauses[2].sig = 1 /\ ip_clauses[2].imp = 1
    /\ ip_clauses[3].source = "sentence" /\ ip_clauses[3].sig = 2 /\ ip_clauses[3].imp = 2
    /\ ip_candidates = <<ip_clauses[3], ip_clauses[1]>>

-----------------------------------------------------------------------------
(* SpecRelevant: QueryHandlerAgent._find_relevant_clauses, lines 75-132,   *)
(* applied to a query and a clause list. The list is made of clauses of    *)
(* mixed kinds and of a run of like clauses before or after them.          *)

\* the kinds of clause: a payment clause, two termination clauses of low
\* and of high risk, and a high-risk clause of another type
RelevantKinds ==
    { [clause_type |-> "payment_terms", risk_score |-> 3,
       original_text |-> {"payment", "the"}, simplified_text |-> {"rent"}],
      [clause_type |-> "termination", risk_score |-> 3,
       original_text |-> {"terminate"}, simplified_text |-> {"the"}],
      [clause_type |-> "termination", risk_score |-> 7,
       original_text |-> {"terminate"}, simplified_text |-> {"the"}],
      [clause_type |-> "other", risk_score |-> 7,
       original_text |-> {"legal", "rent"}, simplified_text |-> {"rent"}] }

\* the queries: "What are the payment terms?" and others
RelevantQueries == { {"payment", "the"}, {"payment", "rent"}, {"terminate"}, {"the"} }

\* the clauses numbered in list order
Numbered(kinds) == [k \in 1..Len(kinds) |-> MkQueryClause(k, kinds[k])]

InitRelevant ==
    /\ CoreIdle /\ ContextIdle /\ RecommendIdle /\ RedFlagsIdle /\ LaterIdle
    /\ AdjustIdle /\ ValidateIdle /\ IdentifyIdle
    /\ rl_pc = "start"
    /\ rl_query \in RelevantQueries
    /\ \E n \in 0..MaxRelevantClauses :
       \E mixed \in [1..n -> RelevantKinds] :
       \E r \in 0..MaxRelevantRepeat :
       \E kind \in RelevantKinds :
       \E run_first \in BOOLEAN :
           rl_clauses = Numbered(IF run_first THEN Repeat(kind, r) \o mixed
                                 ELSE mixed \o Repeat(kind, r))
    /\ rl_relevant = <<>>

\* query_handler.py line 39: relevant_clauses =
\* self._find_relevant_clauses(query, legal_clauses)
FindRelevantClauses ==
    /\ rl_pc = "start"
    /\ rl_relevant' = find_relevant_clauses(rl_query, rl_clauses)
    /\ rl_pc' = "done"
    /\ UNCHANGED <<rl_query, rl_clauses, notRelevant>>

NextRelevant == FindRelevantClauses

SpecRelevant == InitRelevant /\ [][NextRelevant]_vars

\* the relevance score of the clause numbered k, times ScoreDen(rl_query)
Relevance(k) == ScoreNum(rl_clauses[k], rl_query)

\* the clause numbered k scores above 0.5
ScoresAboveHalf(k) == 2 * Relevance(k) > ScoreDen(rl_query)

\* j comes before k by descending score, ties in input order
RanksBefore(j, k) ==
    \/ Relevance(j) > Relevance(k)
    \/ Relevance(j) = Relevance(k) /\ j < k

\* the first cap clauses of the set S by descending score, in that order
TopOf(S, cap) ==
    LET place(k) == Cardinality({ j \in S : RanksBefore(j, k) }) + 1
        size == Min(cap, Cardinality(S))
    IN [m \in 1..size |-> rl_clauses[CHOOSE k \in S : place(k) = m]]

\* C26: _find_relevant_clauses returns, if some clause scores above 0.5,
\* the (at most 5) highest-scoring clauses among those above 0.5, in
\* descending score order with ties in input order, and no clause scoring
\* 0.5 or less; otherwise the top one or two clauses by score. With a query
\* matching the payment pattern a payment_terms clause gets 3.0 from the
\* pattern-topic match and is selected (when fewer than 5 clauses rank
\* before it), and a termination clause scoring 0.5 or less is excluded.
C26_RelevantSelection ==
    rl_pc = "done" =>
        LET all == 1..Len(rl_clauses)
            above == { k \in all : ScoresAboveHalf(k) }
            selected == { k \in all : \E m \in 1..Len(rl_relevant) : rl_relevant[m] = rl_clauses[k] }
        IN /\ above # {} =>
                /\ rl_relevant = TopOf(above, 5)
                /\ selected \subseteq above
           /\ above = {} => rl_relevant = TopOf(all, 2)
           /\ \A k \in all :
                 ( /\ "payment" \in rl_query
                   /\ rl_clauses[k].clause_type = "payment_terms" ) =>
                     /\ Relevance(k) >= 3 * ScoreDen(rl_query)
                     /\ Cardinality({ j \in all : RanksBefore(j, k) }) < 5 => k \in selected
                     /\ \A j \in all :
                           (rl_clauses[j].clause_type = "termination" /\ ~ScoresAboveHalf(j))
                              => j \notin selected

\* the query "What are the payment terms?" on a list of a termination
\* clause of high risk, scoring 0.5, before a payment_terms clause: the
\* payment_terms clause alone is returned; and a list of six clauses above
\* 0.5 of which the last scores highest: it is returned first and the
\* sixth by rank is left out
C26_Witness ==
    /\ rl_pc = "done"
    /\ rl_query = {"payment", "the"}
    /\ \/ /\ Len(rl_clauses) = 2
          /\ rl_clauses[1].clause_type = "termination"
          /\ 2 * Relevance(1) = ScoreDen(rl_query)
          /\ rl_clauses[2].clause_type = "payment_terms"
          /\ rl_relevant = <<rl_clauses[2]>>
       \/ /\ Len(rl_clauses) = 6
          /\ \A k \in 1..6 : ScoresAboveHalf(k)
          /\ \A k \in 1..5 : Relevance(6) > Relevance(k)
          /\ Len(rl_relevant) = 5
          /\ rl_relevant[1] = rl_clauses[6]

\* ---------------------------------------------------------------------
\* The life of a processing status: main.py, upload_document,
\* process_document_async and process_document_enhanced_async
\* ---------------------------------------------------------------------

\* the event loop runs every task that is ready, and each call a task
\* awaits returns or raises: a task that can take a step takes it
SpecTwoDocsFair ==
    SpecTwoDocs /\ \A document_id \in Docs : WF_vars(RunTask(document_id))

\* processing_status[document_id].status, "absent" before the upload
StatusOf(dict, document_id) ==
    IF dict[document_id] = Absent THEN "absent" ELSE dict[document_id].status

\* the moves of a status
StatusMoves ==
    { <<"absent", "uploaded">>, <<"uploaded", "processing">>,
      <<"processing", "completed">>, <<"processing", "failed">> }

StatusMovesForward ==
    \A document_id \in Docs :
        LET before == StatusOf(td_processing_status, document_id)
            after == StatusOf(td_processing_status', document_id)
        IN after # before => <<before, after>> \in StatusMoves

\* no task has begun for a document that waits, one task for a document
\* that is processed or was
OneTaskPerDocument ==
    \A document_id \in Docs :
        td_runs[document_id] =
            IF StatusOf(td_processing_status, document_id) \in {"absent", "uploaded"}
            THEN 0 ELSE 1

ProcessingEnds ==
    \A document_id \in Docs :
        (StatusOf(td_processing_status, document_id) = "processing")
            ~> (StatusOf(td_processing_status, document_id) \in {"completed", "failed"})

\* C27: the status of a document only moves uploaded -> processing ->
\* completed or uploaded -> processing -> failed, so that completed and
\* failed are never left; exactly one background task begins for each
\* document that is processed; and, every task that can step stepping, a
\* document that is processing is completed or failed in the end
C27_StatusLifeCycle ==
    /\ [][StatusMovesForward]_vars
    /\ []OneTaskPerDocument
    /\ ProcessingEnds

\* one document failed in the enhanced task and the other completed in the
\* plain one, each after one task
C27_Witness ==
    /\ StatusOf(td_processing_status, "A") = "failed"
    /\ td_input["A"].endpoint = "upload_enhanced"
    /\ td_input["A"].fail_at = "summary"
    /\ StatusOf(td_processing_status, "B") = "completed"
    /\ td_input["B"].endpoint = "upload"
    /\ td_runs = [d \in Docs |-> 1]

\* ---------------------------------------------------------------------
\* What the request handlers see: main.py, get_analysis_results and
\* query_document; orchestrator.py, handle_user_query. A handler reads
\* the dictionaries without suspending, so it sees one state of them.
\* ---------------------------------------------------------------------

\* GET /analysis/{document_id}, main.py lines 141-160: the reply, where the
\* lookup of line 160 raises KeyError for a document without a result
get_analysis_results(s, document_id) ==
    LET st == StatusOf(s.processing_status, document_id)
    IN IF s.analysis_results[document_id] = Absent
       THEN IF st = "absent" THEN "404 Document not found"
            ELSE IF st \in {"processing", "uploaded"} THEN "202 Document is still being processed"
            ELSE IF st = "failed" THEN "500 Processing failed"
            ELSE "KeyError"
       ELSE "200"

\* OrchestratorAgent.handle_user_query, orchestrator.py lines 118-128, up to
\* the call of the query handler
handle_user_query(s, document_id) ==
    IF s.analysis_cache[document_id] = Absent THEN "ValueError not found or not processed"
    ELSE IF s.processed_documents[document_id] = Absent THEN "ValueError processed document not found"
    ELSE "query handler"

\* POST /query, main.py lines 162-179: the reply, or the query handler
\* that makes it
query_document(s, document_id) ==
    IF s.analysis_results[document_id] = Absent
    THEN "404 Document not found or not yet processed"
    ELSE IF handle_user_query(s, document_id) = "query handler" THEN "query handler"
    ELSE "500 Query failed"

\* C28: in every state, a document has a stored result exactly when its
\* status is completed; GET /analysis never looks up the result of a
\* document that has none; and POST /query reaches the query handler
\* exactly for the completed documents, whose analysis is cached and whose
\* processed document is kept by the orchestrator
C28_ResultsIffCompleted ==
    \A document_id \in Docs :
        LET completed == StatusOf(td_processing_status, document_id) = "completed"
        IN /\ (td_analysis_results[document_id] # Absent) <=> completed
           /\ get_analysis_results(CurrentStore, document_id) # "KeyError"
           /\ (get_analysis_results(CurrentStore, document_id) = "200") <=> completed
           /\ (query_document(CurrentStore, document_id) = "query handler") <=> completed
           /\ completed =>
                  /\ td_analysis_cache[document_id] # Absent
                  /\ td_processed_documents[document_id] # Absent
                  /\ td_analysis_results[document_id] = td_analysis_cache[document_id]

\* one document is completed and can be queried while the other, still
\* processing after its text was extracted, gets 202 and 404
C28_Witness ==
    /\ StatusOf(td_processing_status, "A") = "completed"
    /\ get_analysis_results(CurrentStore, "A") = "200"
    /\ query_document(CurrentStore, "A") = "query handler"
    /\ StatusOf(td_processing_status, "B") = "processing"
    /\ td_processed_documents["B"] # Absent
    /\ get_analysis_results(CurrentStore, "B") = "202 Document is still being processed"
    /\ query_document(CurrentStore, "B") = "404 Document not found or not yet processed"

\* ---------------------------------------------------------------------
\* The risk assessment in the stored analysis: orchestrator.py lines 50-58
\* and 89-95, risk_assessor.py lines 51-55 and 106-132
\* ---------------------------------------------------------------------

\* orchestrator.py lines 89-95: the DocumentAnalysis takes its overall
\* score from the risk assessment and its key clauses from the list the
\* analyzer returned, the list that was passed to assess_document_risk
DocumentAnalysisOf(analyzed_clauses, risk_assessment) ==
    [overall_risk_score |-> risk_assessment.overall_risk,
     key_clauses |-> analyzed_clauses]

\* C29 as stated: the overall_risk_score of a DocumentAnalysis is the
\* aggregator's formula (weighted average plus adjustments, clamped)
\* applied to the risk scores of exactly the clauses stored in key_clauses.
C29_ScoreOfKeyClauses ==
    (ra_pc = "done" /\ clauses # <<>>) =>
        LET analysis == DocumentAnalysisOf(clauses, result)
        IN analysis.overall_risk_score = calculate_overall_risk(analysis.key_clauses)

\* a finished assessment of one clause whose revised score was taken over:
\* the key clause keeps the original score and the overall score is that
\* of the revised copy
C29_ScoreOfRevisedCopies ==
    /\ ra_pc = "done"
    /\ Len(clauses) = 1
    /\ clauses[1].risk_score = 7
    /\ enhanced_clauses[1].risk_score = 9
    /\ LET analysis == DocumentAnalysisOf(clauses, result)
       IN /\ analysis.overall_risk_score = calculate_overall_risk(enhanced_clauses)
          /\ analysis.overall_risk_score # calculate_overall_risk(analysis.key_clauses)
          /\ analysis.key_clauses[1].risk_score = 7

\* the enhanced clause holds the score, the explanation and the
\* recommendations of the original
KeptAsOriginal(original, enhanced) ==
    /\ enhanced.risk_score = original.risk_score
    /\ enhanced.risk_explanation = original.risk_explanation
    /\ enhanced.recommendations = original.recommendations

\* C30 as stated: when the supplementary call for an eligible clause fails,
\* the clause enters aggregation with the risk score, explanation and
\* recommendations of the original clause, and the pass goes on with the
\* other clauses.
C30_FailedCallKeepsOriginal ==
    [][ReassessNext(AssessApiError) =>
           /\ KeptAsOriginal(NextClauseToEnhance,
                             enhanced_clauses'[Len(enhanced_clauses) + 1])
           /\ ra_pc' = "enhance"]_vars

\* a finished assessment in which the supplementary call failed for a
\* clause of score 6: the clause was aggregated with the score 5, the
\* explanation and the recommendation of the fallback answer
C30_FallbackTakenOver ==
    /\ ra_pc = "done"
    /\ \E k \in 1..Len(clauses) :
          /\ NeedsReassessment(clauses[k])
          /\ clauses[k].risk_score = 6
          /\ enhanced_clauses[k].risk_score = FallbackAssessment.risk_score
          /\ enhanced_clauses[k].risk_explanation = FallbackAssessment.risk_explanation
          /\ enhanced_clauses[k].recommendations =
                 OriginalRecommendations \o FallbackAssessment.recommendations
          /\ result.overall_risk = calculate_overall_risk(enhanced_clauses)

====
